---- MODULE Spec2Model ----
(***************************************************************************)
(* A model of blazing_agi: the AGI wire parser (agiparse.rs), the          *)
(* connection with its accumulator and FIFO (connection.rs), the router    *)
(* and its composition operators (router.rs), the chain handler            *)
(* (handler.rs, layer.rs) and the per-connection session (Router::handle). *)
(*                                                                         *)
(* Text is modelled by TLA+ strings over ASCII, one character per byte.    *)
(* Option<T> is a sequence of length 0 (None) or 1 (Some).                 *)
(* Result<T, E> is a record [ok, val, err].                                *)
(***************************************************************************)
EXTENDS Integers, Sequences, FiniteSets, TLC

(***************************************************************************)
(* Bounds of the model.                                                    *)
(***************************************************************************)
\* number of cut points of a partition in the parser specification
MaxCuts == 2
\* a chunk of a partition is at most this long, unless it ends at a line end
\* or at the end of the input
MaxChunk == 12
\* number of segments the peer sends in one session
MaxPeerSends == 2
\* number of router-building operations
MaxOps == 4
\* connections the listener accepts
MaxSessions == 2

(***************************************************************************)
(* Strings.                                                                *)
(***************************************************************************)
None == << >>
Some(x) == << x >>
IsSome(o) == Len(o) = 1
Unwrap(o) == o[1]

Ok(v) == [ok |-> TRUE, val |-> v, err |-> [kind |-> "", text |-> ""]]
Err(k, t) == [ok |-> FALSE, val |-> None, err |-> [kind |-> k, text |-> t]]

Min(a, b) == IF a <= b THEN a ELSE b

\* &s[i..] with a 1-based i
From(s, i) == SubSeq(s, i, Len(s))
\* &s[..n]
Upto(s, n) == SubSeq(s, 1, n)
\* str::starts_with
StartsWith(s, p) == Len(p) <= Len(s) /\ SubSeq(s, 1, Len(p)) = p

\* str::find from position i (1-based): the position of the first occurrence
\* of pat at or after i, or 0
RECURSIVE FindFrom(_, _, _)
FindFrom(s, pat, i) ==
    IF i + Len(pat) - 1 > Len(s) THEN 0
    ELSE LET hi == Min(i + 15, Len(s) - Len(pat) + 1)
             hits == {j \in i..hi : SubSeq(s, j, j + Len(pat) - 1) = pat}
         IN  IF hits = {} THEN FindFrom(s, pat, hi + 1)
             ELSE CHOOSE j \in hits : \A k \in hits : j <= k

\* str::contains
Contains(s, pat) == FindFrom(s, pat, 1) # 0

\* str::split(pat): the pieces of s between the occurrences of pat
RECURSIVE SplitFrom(_, _, _)
SplitFrom(s, pat, i) ==
    LET j == FindFrom(s, pat, i)
    IN  IF j = 0 THEN << SubSeq(s, i, Len(s)) >>
        ELSE << SubSeq(s, i, j - 1) >> \o SplitFrom(s, pat, j + Len(pat))
Split(s, pat) == SplitFrom(s, pat, 1)

Whitespace == {" ", "\t", "\n", "\r", "\f"}
\* str::trim_end
RECURSIVE trim_end(_)
trim_end(s) ==
    IF Len(s) > 0 /\ SubSeq(s, Len(s), Len(s)) \in Whitespace
    THEN trim_end(SubSeq(s, 1, Len(s) - 1))
    ELSE s

\* str::lines: split at "\n", without a last empty piece, a trailing "\r"
\* of each line removed
StripCr(l) ==
    IF Len(l) > 0 /\ SubSeq(l, Len(l), Len(l)) = "\r"
    THEN SubSeq(l, 1, Len(l) - 1) ELSE l
lines(s) ==
    LET raw == Split(s, "\n")
        kept == IF raw[Len(raw)] = "" THEN SubSeq(raw, 1, Len(raw) - 1) ELSE raw
    IN  [i \in 1..Len(kept) |-> StripCr(kept[i])]

Digits == {"0", "1", "2", "3", "4", "5", "6", "7", "8", "9"}
DigitVal(c) ==
    CASE c = "0" -> 0 [] c = "1" -> 1 [] c = "2" -> 2 [] c = "3" -> 3
      [] c = "4" -> 4 [] c = "5" -> 5 [] c = "6" -> 6 [] c = "7" -> 7
      [] c = "8" -> 8 [] c = "9" -> 9
AllDigits(s) == Len(s) > 0 /\ \A i \in 1..Len(s) : SubSeq(s, i, i) \in Digits

\* the value of a digit string, or max + 1 as soon as it exceeds max
RECURSIVE DigitsValue(_, _, _)
DigitsValue(s, acc, max) ==
    IF s = "" THEN acc
    ELSE LET next == acc * 10 + DigitVal(SubSeq(s, 1, 1))
         IN  IF next > max THEN max + 1 ELSE DigitsValue(SubSeq(s, 2, Len(s)), next, max)

\* str::parse::<uN>() for an unsigned type of maximum max: an optional "+",
\* then digits; -1 stands for Err
ParseUnsigned(s, max) ==
    LET body == IF StartsWith(s, "+") THEN From(s, 2) ELSE s
    IN  IF ~AllDigits(body) THEN -1
        ELSE LET v == DigitsValue(body, 0, max) IN IF v > max THEN -1 ELSE v

U8Max == 255
\* the size of the scratch buffer of read_single_call
ReadBufSize == 2048
U16Max == 65535

\* str::parse::<u64>(): the value is kept as its canonical decimal text (the
\* text Display prints), "" stands for Err
RECURSIVE StripZeros(_)
StripZeros(s) ==
    IF Len(s) > 1 /\ SubSeq(s, 1, 1) = "0" THEN StripZeros(From(s, 2)) ELSE s
RECURSIVE DigitsLeq(_, _)
DigitsLeq(a, b) ==
    IF a = "" THEN TRUE
    ELSE LET x == DigitVal(SubSeq(a, 1, 1))
             y == DigitVal(SubSeq(b, 1, 1))
         IN  IF x < y THEN TRUE
             ELSE IF x > y THEN FALSE
             ELSE DigitsLeq(From(a, 2), From(b, 2))
U64MaxText == "18446744073709551615"
ParseU64(s) ==
    LET body == IF StartsWith(s, "+") THEN From(s, 2) ELSE s
        canon == StripZeros(body)
    IN  IF ~AllDigits(body) THEN ""
        ELSE IF Len(canon) > Len(U64MaxText) THEN ""
        ELSE IF Len(canon) = Len(U64MaxText) /\ ~DigitsLeq(canon, U64MaxText) THEN ""
        ELSE canon

(***************************************************************************)
(* agiparse.rs: the status line.                                           *)
(***************************************************************************)
StatusOk(result, op_data) == [kind |-> "Ok", result |-> result, op_data |-> op_data]
StatusInvalid == [kind |-> "Invalid", result |-> "", op_data |-> None]
StatusDeadChannel == [kind |-> "DeadChannel", result |-> "", op_data |-> None]
StatusEndUsage == [kind |-> "EndUsage", result |-> "", op_data |-> None]

\* the match on the status code, had its last arm taken every other code
\* for 200
StatusOfAnyCode(code, result, operational_data, s) ==
    CASE code = 510 -> Ok(StatusInvalid)
      [] code = 511 -> Ok(StatusDeadChannel)
      [] code = 520 -> Ok(StatusEndUsage)
      [] OTHER -> Ok(StatusOk(result, operational_data))

\* the match on the status code at the end of AGIStatusGeneric::from_str
StatusOfCode(code, result, operational_data, s) ==
    CASE code = 200 -> Ok(StatusOk(result, operational_data))
      [] code = 510 -> Ok(StatusInvalid)
      [] code = 511 -> Ok(StatusDeadChannel)
      [] code = 520 -> Ok(StatusEndUsage)
      [] OTHER -> Err("StatusDoesNotExist", ToString(code))

\* impl FromStr for AGIStatusGeneric
AGIStatusGeneric_from_str(s) ==
    LET splitline == Split(trim_end(s), " ")
        code == ParseUnsigned(splitline[1], U16Max)
    IN  IF code = -1 THEN Err("StatusCodeUnparsable", s)
        ELSE IF Len(splitline) < 2 THEN Err("NoResult", s)
        ELSE IF ~StartsWith(splitline[2], "result=") THEN Err("ResultUnparsable", s)
        ELSE StatusOfCode(code,
                          From(splitline[2], 8),
                          IF Len(splitline) >= 3 THEN Some(splitline[3]) ELSE None,
                          s)

(***************************************************************************)
(* The url crate, as far as agiparse.rs and router.rs use it: Url::parse   *)
(* and Url::path_segments for texts of the shape scheme://authority/path.  *)
(***************************************************************************)
Letters == {"a", "b", "c", "d", "e", "f", "g", "h", "i", "j", "k", "l", "m",
            "n", "o", "p", "q", "r", "s", "t", "u", "v", "w", "x", "y", "z"}
SchemeChars == Letters \cup Digits \cup {"+", "-", "."}
SpecialSchemes == {"http", "https", "ws", "wss", "ftp"}

IsScheme(t) ==
    /\ Len(t) > 0
    /\ SubSeq(t, 1, 1) \in Letters
    /\ \A i \in 1..Len(t) : SubSeq(t, i, i) \in SchemeChars

\* the path of the text after "scheme:"
UrlPath(scheme, rest) ==
    IF StartsWith(rest, "//")
    THEN LET slash == FindFrom(rest, "/", 3)
         IN  IF slash = 0
             THEN (IF scheme \in SpecialSchemes THEN "/" ELSE "")
             ELSE From(rest, slash)
    ELSE rest

\* Url::parse: Err for a text without a scheme (a relative reference)
Url_parse(s) ==
    LET colon == FindFrom(s, ":", 1)
        scheme == Upto(s, colon - 1)
    IN  IF colon = 0 \/ ~IsScheme(scheme) THEN Err("RelativeUrlWithoutBase", s)
        ELSE Ok([scheme |-> scheme, path |-> UrlPath(scheme, From(s, colon + 1)), text |-> s])

\* Url::path_segments: None unless the path starts with "/"
path_segments(url) ==
    IF StartsWith(url.path, "/") THEN Some(Split(From(url.path, 2), "/")) ELSE None

(***************************************************************************)
(* agiparse.rs: the request type and the variable dump.                    *)
(***************************************************************************)
\* impl FromStr for AGIRequestType
AGIRequestType_from_str(s) ==
    LET parsed_uri == Url_parse(s)
    IN  IF parsed_uri.ok
        THEN [kind |-> "FastAGI", url |-> Some(parsed_uri.val), file |-> ""]
        ELSE [kind |-> "File", url |-> None, file |-> s]

\* fn enhanced_status
enhanced_status(input) ==
    IF input = "0.0" THEN Ok(FALSE)
    ELSE IF input = "1.0" THEN Ok(TRUE)
    ELSE Err("EnhancedUnparsable", input)

\* the fields of AGIVariableDump in declaration order
DumpFields == << "network_script", "request", "channel", "language", "channel_type",
                 "uniqueid", "version", "callerid", "calleridname", "callingpres",
                 "callingani2", "callington", "callingtns", "dnid", "rdnis",
                 "context", "extension", "priority", "enhanced", "accountcode",
                 "threadid" >>
FieldNames == {DumpFields[i] : i \in 1..Len(DumpFields)}

\* the match arms of AGIVariableDump::from_str: the field a line name sets
FieldOfLine(name) ==
    CASE name = "agi_network_script" -> "network_script"
      [] name = "agi_request" -> "request"
      [] name = "agi_channel" -> "channel"
      [] name = "agi_language" -> "language"
      [] name = "agi_type" -> "channel_type"
      [] name = "agi_uniqueid" -> "uniqueid"
      [] name = "agi_version" -> "version"
      [] name = "agi_callerid" -> "callerid"
      [] name = "agi_calleridname" -> "calleridname"
      [] name = "agi_callingpres" -> "callingpres"
      [] name = "agi_callingani2" -> "callingani2"
      [] name = "agi_callington" -> "callington"
      [] name = "agi_callingtns" -> "callingtns"
      [] name = "agi_dnid" -> "dnid"
      [] name = "agi_rdnis" -> "rdnis"
      [] name = "agi_context" -> "context"
      [] name = "agi_extension" -> "extension"
      [] name = "agi_priority" -> "priority"
      [] name = "agi_enhanced" -> "enhanced"
      [] name = "agi_accountcode" -> "accountcode"
      [] name = "agi_threadid" -> "threadid"
      [] OTHER -> ""

\* the value a field's match arm stores
FieldValue(field, value) ==
    CASE field = "request" -> Ok(AGIRequestType_from_str(value))
      [] field = "priority" ->
            (LET p == ParseUnsigned(value, U16Max)
             IN  IF p = -1 THEN Err("PriorityUnparsable", value) ELSE Ok(p))
      [] field = "enhanced" -> enhanced_status(value)
      [] field = "threadid" ->
            (LET t == ParseU64(value)
             IN  IF t = "" THEN Err("ThreadIdUnparsable", value) ELSE Ok(t))
      [] OTHER -> Ok(value)

\* the state of the loop over the lines: the Option of every field, the
\* Option of the custom_args map, and the error returned, if any
DumpStart ==
    [vals |-> [f \in FieldNames |-> None], custom_args |-> None,
     err |-> None, stop |-> FALSE]

\* the default arm, had it inserted the value without contains_key
CustomArgLineLastWins(st, m, value) ==
    IF ~StartsWith(m, "agi_arg_") THEN [st EXCEPT !.err = Some(Err("UnknownArg", m))]
    ELSE LET custom_arg_number == ParseUnsigned(From(m, 9), U8Max)
             args == IF IsSome(st.custom_args) THEN Unwrap(st.custom_args) ELSE << >>
         IN  IF custom_arg_number = -1
             THEN [st EXCEPT !.err = Some(Err("CustomArgNumberUnparsable", m))]
             ELSE [st EXCEPT !.custom_args =
                     Some([n \in DOMAIN args \cup {custom_arg_number} |->
                             IF n = custom_arg_number THEN value ELSE args[n]])]

\* the default arm `m => ...`: an agi_arg_<n> line
CustomArgLine(st, m, value) ==
    IF ~StartsWith(m, "agi_arg_") THEN [st EXCEPT !.err = Some(Err("UnknownArg", m))]
    ELSE LET custom_arg_number == ParseUnsigned(From(m, 9), U8Max)
         IN  IF custom_arg_number = -1
             THEN [st EXCEPT !.err = Some(Err("CustomArgNumberUnparsable", m))]
             ELSE IF ~IsSome(st.custom_args)
             THEN [st EXCEPT !.custom_args =
                                Some([n \in {custom_arg_number} |-> value])]
             ELSE LET args == Unwrap(st.custom_args)
                  IN  IF custom_arg_number \in DOMAIN args
                      THEN [st EXCEPT !.err = Some(Err("DuplicateCustomArg", m))]
                      ELSE [st EXCEPT !.custom_args =
                              Some([n \in DOMAIN args \cup {custom_arg_number} |->
                                      IF n = custom_arg_number THEN value ELSE args[n]])]

\* one iteration of `for line in input.lines()`
DumpLine(st, line) ==
    IF line = "" THEN [st EXCEPT !.stop = TRUE]
    ELSE LET name_value == Split(line, ": ")
             name == name_value[1]
         IN  IF Len(name_value) < 2 THEN [st EXCEPT !.err = Some(Err("NoValue", line))]
             ELSE LET value == trim_end(name_value[2])
                      field == FieldOfLine(name)
                  IN  IF field = "" THEN CustomArgLine(st, name, value)
                      ELSE LET v == FieldValue(field, value)
                           IN  IF v.ok THEN [st EXCEPT !.vals[field] = Some(v.val)]
                               ELSE [st EXCEPT !.err = Some(v)]

RECURSIVE DumpLoop(_, _, _)
DumpLoop(st, ls, i) ==
    IF i > Len(ls) \/ st.stop \/ IsSome(st.err) THEN st
    ELSE DumpLoop(DumpLine(st, ls[i]), ls, i + 1)

\* the first field, in declaration order, that no line has set; 0 if none
RECURSIVE FirstMissing(_, _)
FirstMissing(vals, i) ==
    IF i > Len(DumpFields) THEN 0
    ELSE IF ~IsSome(vals[DumpFields[i]]) THEN i
    ELSE FirstMissing(vals, i + 1)

\* the end of AGIVariableDump::from_str, after the loop left the state st:
\* the ok_or(VariableMissing) of every field, then Ok(AGIVariableDump {..})
DumpAfterLoop(st) ==
    LET missing == FirstMissing(st.vals, 1)
    IN  IF IsSome(st.err) THEN Unwrap(st.err)
        ELSE IF missing # 0 THEN Err("VariableMissing", DumpFields[missing])
        ELSE Ok([vals |-> [f \in FieldNames |-> Unwrap(st.vals[f])],
                 custom_args |-> IF IsSome(st.custom_args)
                                 THEN Unwrap(st.custom_args) ELSE << >>])

\* impl FromStr for AGIVariableDump
AGIVariableDump_from_str(input) == DumpAfterLoop(DumpLoop(DumpStart, lines(input), 1))

(***************************************************************************)
(* agiparse.rs: Display of the request type and of the variable dump.  A   *)
(* rendering yields the text written and whether the expect on a missing   *)
(* custom argument panicked.                                               *)
(***************************************************************************)
\* Display of Url: the serialization scheme ":" authority path
Url_to_string(url) ==
    LET rest == From(url.text, Len(url.scheme) + 2)
        slash == FindFrom(rest, "/", 3)
    IN  IF StartsWith(rest, "//")
        THEN url.scheme \o ":" \o (IF slash = 0 THEN rest ELSE Upto(rest, slash - 1))
             \o url.path
        ELSE url.scheme \o ":" \o url.path

\* Debug of a path (`{x:?}`): the text in double quotes, quote and
\* backslash escaped
RECURSIVE escape_debug(_)
escape_debug(t) ==
    IF t = "" THEN ""
    ELSE LET c == SubSeq(t, 1, 1)
         IN  (IF c = "\"" \/ c = "\\" THEN "\\" \o c ELSE c) \o escape_debug(From(t, 2))

\* impl Display for AGIRequestType
AGIRequestType_to_string(request) ==
    IF request.kind = "File" THEN "\"" \o escape_debug(request.file) \o "\""
    ELSE Url_to_string(Unwrap(request.url))

\* Display of the value of a field
FieldText(field, v) ==
    CASE field = "request" -> AGIRequestType_to_string(v)
      [] field = "priority" -> ToString(v)
      [] field = "enhanced" -> (IF v THEN "true" ELSE "false")
      [] OTHER -> v

\* the name Display writes in front of a field
LineOfField(field) ==
    IF field = "channel_type" THEN "agi_channel_type" ELSE "agi_" \o field

\* the write! of the fields i.. in declaration order
RECURSIVE FieldLines(_, _)
FieldLines(vals, i) ==
    IF i > Len(DumpFields) THEN ""
    ELSE LineOfField(DumpFields[i]) \o ": " \o FieldText(DumpFields[i], vals[DumpFields[i]])
         \o "\n" \o FieldLines(vals, i + 1)

\* `for idx in 0..self.custom_args.len()` from idx on, after out was written
RECURSIVE ArgLines(_, _, _)
ArgLines(custom_args, idx, out) ==
    IF idx >= Cardinality(DOMAIN custom_args) THEN [panic |-> FALSE, text |-> out]
    ELSE IF idx \notin DOMAIN custom_args THEN [panic |-> TRUE, text |-> out]
    ELSE ArgLines(custom_args, idx + 1,
                  out \o "agi_arg_" \o ToString(idx) \o ": " \o custom_args[idx] \o "\n")

\* impl Display for AGIVariableDump
AGIVariableDump_to_string(dump) ==
    ArgLines(dump.custom_args, 0, FieldLines(dump.vals, 1))

(***************************************************************************)
(* agiparse.rs: AGIMessage.                                                *)
(***************************************************************************)
NetworkStart == [type |-> "NetworkStart", status |-> None, dump |-> None]
StatusMsg(st) == [type |-> "Status", status |-> Some(st), dump |-> None]
VariableDumpMsg(d) == [type |-> "VariableDump", status |-> None, dump |-> Some(d)]

\* Ok(AGIMessage::Status(..)) of a parsed status, or its error
StatusParsed(st) == IF st.ok THEN Ok(StatusMsg(st.val)) ELSE st
\* Ok(AGIMessage::VariableDump(..)) of a parsed dump, or its error
DumpParsed(d) == IF d.ok THEN Ok(VariableDumpMsg(d.val)) ELSE d

\* impl FromStr for AGIMessage
AGIMessage_from_str(s) ==
    IF StartsWith(s, "agi_network: yes") THEN Ok(NetworkStart)
    ELSE IF Contains(s, " result=")
    THEN StatusParsed(AGIStatusGeneric_from_str(Split(s, "\n")[1]))
    ELSE DumpParsed(AGIVariableDump_from_str(s))

(***************************************************************************)
(* connection.rs: line_type and AGIMessageBuffer.  A buffer operation      *)
(* yields the pair of its result and the new this_message.                 *)
(***************************************************************************)
\* fn line_type
line_type(line) ==
    IF line = "\n" THEN "Empty"
    ELSE IF line = "agi_network: yes\n" THEN "NetworkStart"
    ELSE IF Len(line) >= 3 /\ StartsWith(From(line, 4), " result=") THEN "Status"
    ELSE "Unknown"

BufResult(res, this_message) == [res |-> res, this_message |-> this_message]

\* the message msg parsed from this_message, had the buffer been drained
\* before the `?`
ParsedDrained(msg, this_message, left) ==
    IF msg.ok THEN BufResult(Ok(Some(msg.val)), left)
    ELSE BufResult(msg, left)

\* the message msg parsed from this_message: on success the message and the
\* buffer left (this_message without what was parsed), else the error
Parsed(msg, this_message, left) ==
    IF msg.ok THEN BufResult(Ok(Some(msg.val)), left)
    ELSE BufResult(msg, this_message)

\* AGIMessageBuffer::try_parse_and_flush
try_parse_and_flush(this_message) ==
    IF this_message = "" THEN BufResult(Ok(None), this_message)
    ELSE Parsed(AGIMessage_from_str(this_message), this_message, "")

\* the arms `LineType::Empty` and `LineType::Status`: parse everything up to
\* the newline at position nl, and drain it if that succeeds
ParseAndDrain(this_message, nl) ==
    Parsed(AGIMessage_from_str(Upto(this_message, nl)), this_message,
           From(this_message, nl + 1))

\* `if let Ok(x) = try_parse { return Ok(x); }`, else Ok(None)
OkOrNotYet(try_parse, this_message) ==
    IF try_parse.res.ok THEN try_parse ELSE BufResult(Ok(None), this_message)

\* the arm `None` of the match on find('\n')
NoMoreNewline(this_message) ==
    IF line_type(this_message) = "Status"
    THEN OkOrNotYet(try_parse_and_flush(this_message), this_message)
    ELSE BufResult(Ok(None), this_message)

\* the loop of strip_single_message; current_line_start is 1-based
RECURSIVE StripLoop(_, _)

\* one iteration of the loop: nl is the position of the next newline (0 if
\* there is none)
StripLine(this_message, current_line_start, nl) ==
    LET lt == line_type(SubSeq(this_message, current_line_start, nl))
    IN  IF nl = 0 THEN NoMoreNewline(this_message)
        ELSE CASE lt = "Empty" -> ParseAndDrain(this_message, nl)
               [] lt = "Status" -> ParseAndDrain(this_message, nl)
               [] lt = "NetworkStart" ->
                    BufResult(Ok(Some(NetworkStart)), From(this_message, nl + 1))
               [] OTHER -> StripLoop(this_message, nl + 1)

StripLoop(this_message, current_line_start) ==
    StripLine(this_message, current_line_start,
              FindFrom(this_message, "\n", current_line_start))

\* AGIMessageBuffer::strip_single_message
strip_single_message(this_message) ==
    IF this_message = "" THEN BufResult(Ok(None), this_message)
    ELSE StripLoop(this_message, 1)

\* the arm of strip_single_message the scan from current_line_start ends in:
\* the type of the first line that is not Unknown, "None" without a newline
RECURSIVE ArmLoop(_, _)

ArmOfLine(this_message, nl, lt) ==
    IF nl = 0 THEN "None"
    ELSE IF lt = "Unknown" THEN ArmLoop(this_message, nl + 1)
    ELSE lt

ArmAt(this_message, current_line_start, nl) ==
    ArmOfLine(this_message, nl,
              line_type(SubSeq(this_message, current_line_start, nl)))

ArmLoop(this_message, current_line_start) ==
    ArmAt(this_message, current_line_start,
          FindFrom(this_message, "\n", current_line_start))

\* the arm strip_single_message returns from
strip_arm(this_message) ==
    IF this_message = "" THEN "None" ELSE ArmLoop(this_message, 1)

\* the arms the first k calls of strip_single_message return from
RECURSIVE PeeledBy(_, _)
PeeledBy(this_message, k) ==
    IF k = 0 THEN << >>
    ELSE << strip_arm(this_message) >>
         \o PeeledBy(strip_single_message(this_message).this_message, k - 1)

\* the bytes the first k calls of strip_single_message remove from the
\* front of this_message
RECURSIVE RemovedBy(_, _)
RemovedBy(this_message, k) ==
    IF k = 0 THEN << >>
    ELSE LET left == strip_single_message(this_message).this_message
         IN  << Upto(this_message, Len(this_message) - Len(left)) >>
             \o RemovedBy(left, k - 1)

\* the loop of handle_single_call_buffer
RECURSIVE HandleLoop(_, _)

\* one iteration of the loop, had it pushed a NetworkStart wherever it came
HandleStrippedAnyOrder(r, res) ==
    IF ~r.res.ok THEN BufResult(r.res, r.this_message)
    ELSE IF ~IsSome(r.res.val) THEN BufResult(Ok(res), r.this_message)
    ELSE HandleLoop(r.this_message, Append(res, Unwrap(r.res.val)))

\* one iteration of the loop, had it returned the messages it holds when the
\* scan fails after them
HandleStrippedKeeping(r, res) ==
    IF ~r.res.ok
    THEN (IF res # << >> THEN BufResult(Ok(res), r.this_message)
          ELSE BufResult(r.res, r.this_message))
    ELSE IF ~IsSome(r.res.val) THEN BufResult(Ok(res), r.this_message)
    ELSE IF Unwrap(r.res.val) = NetworkStart /\ res # << >>
    THEN BufResult(Ok(res), r.this_message)
    ELSE HandleLoop(r.this_message, Append(res, Unwrap(r.res.val)))

\* one iteration of the loop: r is what strip_single_message returned
HandleStripped(r, res) ==
    IF ~r.res.ok THEN BufResult(r.res, r.this_message)
    ELSE IF ~IsSome(r.res.val) THEN BufResult(Ok(res), r.this_message)
    ELSE IF Unwrap(r.res.val) = NetworkStart /\ res # << >>
    THEN BufResult(Err("NetworkStartAfterOtherMessage", ""), r.this_message)
    ELSE HandleLoop(r.this_message, Append(res, Unwrap(r.res.val)))

HandleLoop(this_message, res) == HandleStripped(strip_single_message(this_message), res)

\* AGIMessageBuffer::handle_single_call_buffer
handle_single_call_buffer(this_message, buf) ==
    HandleLoop(this_message \o buf, << >>)

(***************************************************************************)
(* handler.rs, layer.rs: handlers as values.  A handler is a user handler  *)
(* (named by id), the FallbackHandler, or an AndThenHandler of two         *)
(* handlers.                                                               *)
(***************************************************************************)
UserHandler(id) == [kind |-> "user", id |-> id, first |-> None, second |-> None]
FallbackHandler == [kind |-> "fallback", id |-> "", first |-> None, second |-> None]

\* AndThenHandler::new
AndThenHandler_new(first, second) ==
    [kind |-> "and_then", id |-> "", first |-> Some(first), second |-> Some(second)]

\* AndThenLayerBefore::new: the layer holds its handler
AndThenLayerBefore_new(handler) == [handler |-> handler]

\* impl Layer for AndThenLayerBefore, had it put its handler behind
AndThenLayerBehind_layer(self, handler) == AndThenHandler_new(handler, self.handler)

\* impl Layer for AndThenLayerBefore: layer(&self, handler)
AndThenLayerBefore_layer(self, handler) == AndThenHandler_new(self.handler, handler)

(***************************************************************************)
(* router.rs: the router and its composition.                              *)
(***************************************************************************)
Route(path, handler) == [path |-> path, handler |-> handler]

\* Router::new
Router_new == [routes |-> << >>, fallback |-> FallbackHandler]

\* Router::route, had it only the first assert!
RouteAssertsNonEmpty(location) == location # ""

\* the two assert! of Router::route
RouteAsserts(location) == location # "" /\ StartsWith(location, "/")

\* location.split('/').skip(1)
LocationPath(location) == Tail(Split(location, "/"))

\* Router::route, for a location that passes the asserts
Router_route(self, location, handler) ==
    [self EXCEPT !.routes = Append(self.routes, Route(LocationPath(location), handler))]

\* Router::merge
Router_merge(self, other) ==
    [self EXCEPT !.routes = self.routes \o other.routes]

\* Router::fallback
Router_fallback(self, handler) == [self EXCEPT !.fallback = handler]

\* Router::layer, had it mapped the layer over the fallback as well
Router_layer_with_fallback(self, layer) ==
    [routes |-> [i \in 1..Len(self.routes) |->
                    Route(self.routes[i].path,
                          AndThenLayerBefore_layer(layer, self.routes[i].handler))],
     fallback |-> AndThenLayerBefore_layer(layer, self.fallback)]

\* Router::layer
Router_layer(self, layer) ==
    [routes |-> [i \in 1..Len(self.routes) |->
                    Route(self.routes[i].path,
                          AndThenLayerBefore_layer(layer, self.routes[i].handler))],
     fallback |-> self.fallback]

(***************************************************************************)
(* router.rs: matching and dispatch.  A HashMap<String, String> is a       *)
(* set of (key, value) pairs with one pair per key.                        *)
(***************************************************************************)
EmptyMap == {}
\* HashMap::insert
MapInsert(map, k, v) == {e \in map : e[1] # k} \cup {<< k, v >>}

NoMatch == [kind |-> "None", captures |-> EmptyMap, wildcards |-> None]
Match(captures, wildcards) ==
    [kind |-> "Some", captures |-> captures, wildcards |-> wildcards]
\* path[idx_in_path] with idx_in_path out of bounds
IndexPanic == [kind |-> "panic", captures |-> EmptyMap, wildcards |-> None]

\* segment_to_match and the remaining segments joined by '/'
RECURSIVE JoinFrom(_, _)
JoinFrom(segs, k) ==
    IF k > Len(segs) THEN ""
    ELSE IF k = Len(segs) THEN segs[k]
    ELSE segs[k] \o "/" \o JoinFrom(segs, k + 1)

\* the end of path_matches, had it let a wildcard left over match nothing
ExhaustedOrWildcard(path, idx_in_path, captures) ==
    IF idx_in_path = Len(path) THEN Match(captures, None)
    ELSE IF idx_in_path = Len(path) - 1 /\ StartsWith(path[Len(path)], "*")
    THEN Match(captures, Some(""))
    ELSE NoMatch

\* the end of path_matches, after the url's segments are exhausted
Exhausted(path, idx_in_path, captures) ==
    IF idx_in_path = Len(path) THEN Match(captures, None) ELSE NoMatch

\* the while loop of path_matches over the url's segments from the k-th;
\* idx_in_path is 0-based as in the source
RECURSIVE PathLoop(_, _, _, _, _)
PathLoop(path, segs, k, idx_in_path, captures) ==
    IF k > Len(segs)
    THEN Exhausted(path, idx_in_path, captures)
    ELSE IF idx_in_path >= Len(path) THEN IndexPanic
    ELSE LET pat == path[idx_in_path + 1]
             segment_to_match == segs[k]
         IN  IF StartsWith(pat, ":")
             THEN PathLoop(path, segs, k + 1, idx_in_path + 1,
                           MapInsert(captures, From(pat, 2), segment_to_match))
             ELSE IF StartsWith(pat, "*")
             THEN Match(captures, Some(JoinFrom(segs, k)))
             ELSE IF pat # segment_to_match THEN NoMatch
             ELSE PathLoop(path, segs, k + 1, idx_in_path + 1, captures)

\* Router::path_matches
path_matches(path, url) ==
    LET path_segs_opt == path_segments(url)
    IN  IF ~IsSome(path_segs_opt)
        THEN (IF path = << >> THEN Match(EmptyMap, None) ELSE NoMatch)
        ELSE PathLoop(path, Unwrap(path_segs_opt), 1, 0, EmptyMap)

\* what route_request returns: the route chosen (0 for the fallback), its
\* handler, the captures and the wildcards; or a panic
Routed(idx, handler, captures, wildcards) ==
    [panic |-> FALSE, idx |-> idx, handler |-> handler,
     captures |-> captures, wildcards |-> wildcards]
RoutePanic ==
    [panic |-> TRUE, idx |-> 0, handler |-> FallbackHandler,
     captures |-> EmptyMap, wildcards |-> None]

\* the for loop of route_request from the route at idx
RECURSIVE RouteLoop(_, _, _)
RouteLoop(self, url, idx) ==
    IF idx > Len(self.routes) THEN Routed(0, self.fallback, EmptyMap, None)
    ELSE LET m == path_matches(self.routes[idx].path, url)
         IN  CASE m.kind = "panic" -> RoutePanic
               [] m.kind = "Some" ->
                    Routed(idx, self.routes[idx].handler, m.captures, m.wildcards)
               [] OTHER -> RouteLoop(self, url, idx + 1)

\* Router::route_request; request is the agi_request of the variable dump
route_request(self, request) ==
    IF request.kind = "FastAGI" THEN RouteLoop(self, Unwrap(request.url), 1)
    ELSE RoutePanic

(***************************************************************************)
(* command/*.rs: the commands, their rendering (Display) and the parser    *)
(* of their response (TryFrom<(&str, Option<&str>)>).                      *)
(***************************************************************************)
Answer == [name |-> "ANSWER", text |-> "ANSWER\n"]
Verbose(message) ==
    [name |-> "VERBOSE", text |-> "VERBOSE \"" \o message \o "\"\n"]
SetVariable(var_name, value) ==
    [name |-> "SET VARIABLE",
     text |-> "SET VARIABLE \"" \o var_name \o "\" \"" \o value \o "\"\n"]
GetFullVariable(expression) ==
    [name |-> "GET FULL VARIABLE",
     text |-> "GET FULL VARIABLE \"" \o expression \o "\"\n"]
GetFullVariableWithChannel(expression, channel) ==
    [name |-> "GET FULL VARIABLE",
     text |-> "GET FULL VARIABLE \"" \o expression \o "\" \"" \o channel \o "\"\n"]
RawCommand(command) == [name |-> "RAW", text |-> command \o "\n"]

I32MaxText == "2147483647"
I32MinAbsText == "2147483648"

\* str::parse::<i32>(): an optional sign, then digits; the value is kept as
\* its canonical decimal text, "" stands for Err
ParseI32(s) ==
    LET negative == StartsWith(s, "-")
        body == IF negative \/ StartsWith(s, "+") THEN From(s, 2) ELSE s
        digits == StripZeros(body)
        fits(max) == \/ Len(digits) < Len(max)
                     \/ Len(digits) = Len(max) /\ DigitsLeq(digits, max)
    IN  IF ~AllDigits(body) THEN ""
        ELSE IF negative
        THEN (IF ~fits(I32MinAbsText) THEN ""
              ELSE IF digits = "0" THEN "0" ELSE "-" \o digits)
        ELSE IF fits(I32MaxText) THEN digits ELSE ""

\* str::trim_matches(|c| c == '(' || c == ')')
RECURSIVE TrimParens(_)
TrimParens(t) ==
    IF Len(t) > 0 /\ SubSeq(t, 1, 1) \in {"(", ")"} THEN TrimParens(From(t, 2))
    ELSE IF Len(t) > 0 /\ SubSeq(t, Len(t), Len(t)) \in {"(", ")"}
    THEN TrimParens(Upto(t, Len(t) - 1))
    ELSE t

\* a typed response: the variant and, for GET FULL VARIABLE and RAW, the data
Typed(variant, result, value) == [variant |-> variant, result |-> result, value |-> value]

\* H::Response::try_from, had every command the response of RawCommand
ResponseTryFromRaw(name, result, op_data) == Ok(Typed("Raw", result, op_data))

\* H::Response::try_from((result, op_data)) for the command named name
ResponseTryFrom(name, result, op_data) ==
    CASE name = "ANSWER" ->
            (IF ParseI32(result) = "0" THEN Ok(Typed("Success", "", None))
             ELSE IF ParseI32(result) = "-1" THEN Ok(Typed("Failure", "", None))
             ELSE Err("AGIStatusParseError", name))
      [] name \in {"VERBOSE", "SET VARIABLE"} ->
            (IF ParseUnsigned(result, U16Max) = 1 THEN Ok(Typed("Unit", "", None))
             ELSE Err("AGIStatusParseError", name))
      [] name = "GET FULL VARIABLE" ->
            (IF ParseI32(result) = "1"
             THEN (IF IsSome(op_data)
                   THEN Ok(Typed("Value", "", Some(TrimParens(Unwrap(op_data)))))
                   ELSE Err("AGIStatusParseError", name))
             ELSE IF ParseI32(result) = "0" THEN Ok(Typed("Value", "", None))
             ELSE Err("AGIStatusParseError", name))
      [] OTHER -> Ok(Typed("Raw", result, op_data))

\* AGIResponse<H::Response>
ResponseOk(inner) == [kind |-> "Ok", inner |-> Some(inner)]
ResponseOther(kind) == [kind |-> kind, inner |-> None]

\* the calls of H::Response::try_from that
\* agi_response_as_specialized_status::<H> makes: one, in the arm
\* AGIStatusGeneric::Ok of its second match
try_from_calls(name, message) ==
    IF message.type = "Status" /\ Unwrap(message.status).kind = "Ok"
    THEN << [name |-> name, result |-> Unwrap(message.status).result,
             op_data |-> Unwrap(message.status).op_data] >>
    ELSE << >>

\* agi_response_as_specialized_status, had it given every status to the
\* parser of the typed response
specialize_every_status(name, message) ==
    IF message.type # "Status" THEN Err("NotAStatus", message)
    ELSE LET status == Unwrap(message.status)
             status_specialized ==
                 ResponseTryFrom(name, status.result, status.op_data)
         IN  IF status_specialized.ok
             THEN Ok(ResponseOk(status_specialized.val))
             ELSE Err("AGIStatusUnspecializable", name)

\* agi_response_as_specialized_status, had it taken a message that is not a
\* Status for an invalid command
specialize_any_message(name, message) ==
    IF message.type # "Status" THEN Ok(ResponseOther("Invalid"))
    ELSE LET status == Unwrap(message.status)
         IN  IF status.kind = "Ok"
             THEN LET status_specialized ==
                          ResponseTryFrom(name, status.result, status.op_data)
                  IN  IF status_specialized.ok
                      THEN Ok(ResponseOk(status_specialized.val))
                      ELSE Err("AGIStatusUnspecializable", name)
             ELSE Ok(ResponseOther(status.kind))

\* Connection::agi_response_as_specialized_status::<H>; the error NotAStatus
\* holds the message
agi_response_as_specialized_status(name, message) ==
    IF message.type # "Status" THEN Err("NotAStatus", message)
    ELSE LET status == Unwrap(message.status)
         IN  IF status.kind = "Ok"
             THEN LET status_specialized ==
                          ResponseTryFrom(name, status.result, status.op_data)
                  IN  IF status_specialized.ok
                      THEN Ok(ResponseOk(status_specialized.val))
                      ELSE Err("AGIStatusUnspecializable", name)
             ELSE Ok(ResponseOther(status.kind))

(***************************************************************************)
(* Texts the peer sends.                                                   *)
(***************************************************************************)
NetworkStartLine == "agi_network: yes\n"

\* a variable dump with the given agi_request value, as Asterisk sends it
DumpText(request) ==
    "agi_network_script: s\n" \o "agi_request: " \o request \o "\n"
    \o "agi_channel: c\n" \o "agi_language: en\n" \o "agi_type: SIP\n"
    \o "agi_uniqueid: 1.8\n" \o "agi_version: 1\n" \o "agi_callerid: m\n"
    \o "agi_calleridname: m\n" \o "agi_callingpres: 0\n" \o "agi_callingani2: 0\n"
    \o "agi_callington: 0\n" \o "agi_callingtns: 0\n" \o "agi_dnid: 6\n"
    \o "agi_rdnis: u\n" \o "agi_context: d\n" \o "agi_extension: 6\n"
    \o "agi_priority: 2\n" \o "agi_enhanced: 0.0\n" \o "agi_accountcode: \n"
    \o "agi_threadid: 11\n" \o "\n"

\* the same dump with agi_arg_<n> lines after its last variable
DumpTextWithArgs(request, arg_lines) ==
    Upto(DumpText(request), Len(DumpText(request)) - 1) \o arg_lines \o "\n"

\* a variable dump with the given request, priority, enhanced flag and
\* agi_arg_<n> lines
DumpTextOf(request, priority, enhanced, arg_lines) ==
    "agi_network_script: s\n" \o "agi_request: " \o request \o "\n"
    \o "agi_channel: c\n" \o "agi_language: en\n" \o "agi_type: SIP\n"
    \o "agi_uniqueid: 1.8\n" \o "agi_version: 1\n" \o "agi_callerid: m\n"
    \o "agi_calleridname: m\n" \o "agi_callingpres: 0\n" \o "agi_callingani2: 0\n"
    \o "agi_callington: 0\n" \o "agi_callingtns: 0\n" \o "agi_dnid: 6\n"
    \o "agi_rdnis: u\n" \o "agi_context: d\n" \o "agi_extension: 6\n"
    \o "agi_priority: " \o priority \o "\n" \o "agi_enhanced: " \o enhanced \o "\n"
    \o "agi_accountcode: \n" \o "agi_threadid: 11\n" \o arg_lines \o "\n"

(***************************************************************************)
(* State.                                                                  *)
(***************************************************************************)
VARIABLES
    \* the parser fed in chunks: the input B, the bytes not yet fed, the
    \* accumulator (this_message), the messages returned so far, the error
    \* returned (None if none), the number of chunks fed
    pB, pRest, pAcc, pOut, pErr, pFed,
    \* for every message returned, the arm of strip_single_message that
    \* completed it and the bytes removed from the accumulator for it
    pArms, pRemoved,
    \* router building: the routers a and b, for each of their routes the
    \* handler it was registered with and the layers applied to it since (in
    \* order of application), the number of builder calls made, whether b was
    \* merged into a, whether a builder call panicked, the request dispatched
    \* on a and what route_request returned for it (None before)
    rA, rB, rGhostA, rGhostB, rOps, rMerged, rPanic, rDispatch,
    \* one session of Router::handle: the router served, the position of the
    \* session, Connection.message_buf and Connection.queued_messages, the
    \* bytes the peer sent that no read returned yet, whether the peer closed
    \* its side, the number of segments the peer sent, the bytes written to
    \* the peer, the command send_command is sending, the stack of running
    \* handlers, the AGIRequest built, the result the routed handler returned
    router, pc, this_message, queued_messages, wire, peer_closed, sends,
    written, cmd, frames, request, outcome,
    \* history of the session: the messages read_one_message returned, the
    \* number of TCP reads made, the messages of the last TCP read and the
    \* number of messages returned before it, the handler invocations and
    \* returns, what every send_command call returned, the state of the
    \* connection when the last command was written
    delivered, tcp_reads, batch, log, replies, atWrite,
    \* the errors read_one_message returned, in order
    read_errors,
    \* one send_command call: the command, the bytes the peer answers with,
    \* the message read_one_message returned (None before the call), the calls
    \* of H::Response::try_from made, what send_command returned
    cCommand, cWire, cResponse, cTried, cReturned,
    \* one call of AGIStatusGeneric::from_str: the status code of its argument,
    \* its argument and its result
    tCode, tLine, tStatus,
    \* a variable dump parsed, rendered and parsed again: the text parsed, the
    \* result of from_str, the result of to_string, the result of from_str on
    \* the rendered text
    dInput, dParsed, dRendered, dReparsed,
    \* one dispatch on a router of two routes: the two locations, the router
    \* built so far, the request dispatched and what route_request returned
    mLoc, mRouter, mResult,
    \* serve: the router behind the Arc, the tasks spawned (one session
    \* each, with its own Connection and its own stream), what serve
    \* returned (None while it loops)
    router_arc, tasks, served

varsP == << pB, pRest, pAcc, pOut, pErr, pFed, pArms, pRemoved >>
varsR == << rA, rB, rGhostA, rGhostB, rOps, rMerged, rPanic, rDispatch >>
varsS == << router, pc, this_message, queued_messages, wire, peer_closed, sends,
            written, cmd, frames, request, outcome,
            delivered, tcp_reads, batch, log, replies, atWrite, read_errors >>
varsC == << cCommand, cWire, cResponse, cTried, cReturned >>
varsT == << tCode, tLine, tStatus >>
varsD == << dInput, dParsed, dRendered, dReparsed >>
varsM == << mLoc, mRouter, mResult >>
varsV == << router_arc, tasks, served >>
vars == << varsP, varsR, varsS, varsC, varsT, varsD, varsM, varsV >>

\* the parts of the state a specification does not use stay as constructed
IdleParser ==
    /\ pB = "" /\ pRest = "" /\ pAcc = "" /\ pOut = << >> /\ pErr = None /\ pFed = 0
    /\ pArms = << >> /\ pRemoved = << >>
IdleRouter ==
    /\ rA = Router_new /\ rB = Router_new /\ rGhostA = << >> /\ rGhostB = << >>
    /\ rOps = 0 /\ rMerged = FALSE /\ rPanic = FALSE /\ rDispatch = None
IdleSession ==
    /\ router = Router_new /\ pc = "idle" /\ this_message = ""
    /\ queued_messages = << >> /\ wire = "" /\ peer_closed = FALSE /\ sends = 0
    /\ written = "" /\ cmd = None /\ frames = << >> /\ request = None
    /\ outcome = None /\ delivered = << >> /\ tcp_reads = 0
    /\ batch = [msgs |-> << >>, at |-> 0] /\ log = << >> /\ replies = << >>
    /\ atWrite = None /\ read_errors = << >>
IdleCommand ==
    /\ cCommand = None /\ cWire = "" /\ cResponse = None /\ cTried = << >>
    /\ cReturned = None
IdleStatus == tCode = 0 /\ tLine = "" /\ tStatus = None
IdleDump == dInput = "" /\ dParsed = None /\ dRendered = None /\ dReparsed = None
IdleMatch == mLoc = << >> /\ mRouter = Router_new /\ mResult = None
IdleServe == router_arc = Router_new /\ tasks = << >> /\ served = None

(***************************************************************************)
(* The wire parser fed a byte string in consecutive chunks.                *)
(***************************************************************************)
ParserInputs ==
    { NetworkStartLine,
      "200 result=1 done\n",
      "200 result=0\n",
      "510 result=-1\n",
      "404 result=1\n",
      "junk\n200 result=1\n",
      "200 result=1\n511 result=-1\n",
      "200 result=1 done",
      NetworkStartLine \o "200 result=1\n",
      NetworkStartLine \o DumpText("agi://h/a"),
      DumpText("/tmp/agi.sh") \o "200 result=1\n",
      "0200 result=1\n\n",
      "agi_network: yes \n\n",
      "junk\n\n",
      "junk\n" \o NetworkStartLine,
      "404 result=1\n200 result=1\n" }

InitParser ==
    /\ pB \in ParserInputs
    /\ pRest = pB
    /\ pAcc = ""
    /\ pOut = << >>
    /\ pErr = None
    /\ pFed = 0
    /\ pArms = << >>
    /\ pRemoved = << >>
    /\ IdleRouter
    /\ IdleSession
    /\ IdleCommand
    /\ IdleStatus
    /\ IdleDump
    /\ IdleMatch
    /\ IdleServe

\* the lengths a next chunk may have
ChunkLens(rest) ==
    {n \in 1..Len(rest) : n <= MaxChunk \/ n = Len(rest) \/ SubSeq(rest, n, n) = "\n"}

\* what a call of handle_single_call_buffer that returned r leaves
Fed(r, buffer) ==
    /\ pArms' = IF r.res.ok THEN pArms \o PeeledBy(buffer, Len(r.res.val)) ELSE pArms
    /\ pRemoved' = IF r.res.ok THEN pRemoved \o RemovedBy(buffer, Len(r.res.val))
                   ELSE pRemoved
    /\ pAcc' = r.this_message
    /\ pOut' = IF r.res.ok THEN pOut \o r.res.val ELSE pOut
    /\ pErr' = IF r.res.ok THEN None ELSE Some(r.res.err)

\* one call of handle_single_call_buffer with the next n bytes; the buffer
\* is used on after a call that returned an error
Feed(n) ==
    /\ pRest # ""
    /\ n = Len(pRest) \/ pFed < MaxCuts
    /\ Fed(handle_single_call_buffer(pAcc, Upto(pRest, n)), pAcc \o Upto(pRest, n))
    /\ pRest' = From(pRest, n + 1)
    /\ pFed' = pFed + 1
    /\ pB' = pB
    /\ UNCHANGED << varsR, varsS, varsC, varsT, varsD, varsM, varsV >>

NextParser == \E n \in ChunkLens(pRest) : Feed(n)

SpecParser == InitParser /\ [][NextParser]_vars

\* the whole input fed in one piece
OnePiece(B) == handle_single_call_buffer("", B)

\* the chunks fed left what the one call that returned one leaves
SameAsOnePiece(one) ==
    one.res.ok =>
        /\ ~IsSome(pErr)
        /\ pOut = one.res.val
        /\ pAcc = one.this_message

(***************************************************************************)
(* C2: fragmentation invariance.  If B fed in one piece yields the message *)
(* sequence M, then B fed in any partition into consecutive chunks yields  *)
(* no error, the same sequence M as the concatenation of the per-call      *)
(* results, and the same accumulator.                                      *)
(***************************************************************************)
C2_FragmentationInvariance == pRest = "" => SameAsOnePiece(OnePiece(pB))

(***************************************************************************)
(* C19: whenever the wire parser completes a message because its scan      *)
(* reached an Empty line, the outcome is a VariableDump or a parse error:  *)
(* a block that an Empty line ends is never returned as a Status or as a   *)
(* NetworkStart.                                                           *)
(***************************************************************************)
C19_EmptyLineEndsDump ==
    \A i \in 1..Len(pOut) : pArms[i] = "Empty" => pOut[i].type = "VariableDump"

\* the text of one line and its newline
OneLine(text) == text # "" /\ FindFrom(text, "\n", 1) = Len(text)

\* the bytes removed for the message are the text parsed into it: the line
\* agi_network: yes for a NetworkStart, the one status line (with or without
\* its newline) for a Status, the block handed to the dump parser for a
\* VariableDump
RemovedIsParsed(message, removed) ==
    CASE message.type = "NetworkStart" -> removed = NetworkStartLine
      [] message.type = "Status" -> OneLine(removed) \/ ~Contains(removed, "\n")
      [] OTHER -> removed # ""

(***************************************************************************)
(* C35: the wire parser never drops received text silently.  Whenever it   *)
(* removes bytes from the accumulator and returns a message, the removed   *)
(* bytes are exactly the text that was parsed into that message; Unknown   *)
(* lines buffered before an `agi_network: yes` line are not removed        *)
(* without being parsed or reported.                                       *)
(***************************************************************************)
C35_NoSilentDrop ==
    \A i \in 1..Len(pOut) : RemovedIsParsed(pOut[i], pRemoved[i])

\* the last call returned the error of the parse of a line or block
ParseErrorHeld ==
    /\ IsSome(pErr)
    /\ Unwrap(pErr).kind # "NetworkStartAfterOtherMessage"

\* the next call appends its bytes behind the offending ones, returns the
\* same error and no message
FailsAgain ==
    ParseErrorHeld =>
        /\ pErr' = pErr
        /\ pOut' = pOut
        /\ pAcc' = pAcc \o Upto(pRest, Len(pRest) - Len(pRest'))

(***************************************************************************)
(* C36: a parse error consumes nothing.  After the wire parser reported    *)
(* the error of the parse of a completed line or block (a status line with *)
(* an unknown code, say), the offending bytes are still at the front of    *)
(* the accumulator: every later call fails with the parse error again and  *)
(* no later well-formed status is ever returned.                           *)
(***************************************************************************)
C36_ParseErrorConsumesNothing == [][FailsAgain]_vars

\* a well-formed status line was fed after the line with the unknown code
C36_Witness ==
    /\ pB = "404 result=1\n200 result=1\n"
    /\ pRest = ""
    /\ pFed = 2
    /\ ParseErrorHeld
    /\ Unwrap(pErr).kind = "StatusDoesNotExist"
    /\ pOut = << >>
    /\ pAcc = pB

\* the offsets of text (counted from at) at which a message ends when the
\* whole of text is scanned at once
RECURSIVE Boundaries(_, _)
Boundaries(text, at) ==
    LET r == strip_single_message(text)
        end == at + Len(text) - Len(r.this_message)
    IN  IF r.res.ok /\ IsSome(r.res.val)
        THEN {end} \cup Boundaries(r.this_message, end)
        ELSE {}

\* the number of bytes fed so far
FedBytes == Len(pB) - Len(pRest)

\* the message ends among the bytes fed so far
EndsFed == {b \in Boundaries(pB, 0) : b <= FedBytes}

\* the last of them (0 if there is none)
LastEnd == IF EndsFed = {} THEN 0 ELSE CHOOSE b \in EndsFed : \A c \in EndsFed : c <= b

(***************************************************************************)
(* C33: when a call of the wire parser ends with bytes that do not yet     *)
(* form a complete message, no message is returned for them and they stay  *)
(* in the accumulator unchanged and in arrival order; when the bytes fed   *)
(* end at a message boundary the accumulator is empty.  So after every     *)
(* call the messages returned are those that end within the bytes fed, and *)
(* the accumulator holds the bytes fed after the last of them.             *)
(***************************************************************************)
C33_PartialMessageStays ==
    (~IsSome(pErr) /\ OnePiece(pB).res.ok) =>
        /\ Len(pOut) = Cardinality(EndsFed)
        /\ pAcc = SubSeq(pB, LastEnd + 1, FedBytes)

\* the messages of the stream, in the order of their bytes
StreamMessages == OnePiece(pB).res.val

(***************************************************************************)
(* C38: as long as no parse error occurs, the messages come out in exactly *)
(* the order in which their bytes arrived on the stream, each exactly      *)
(* once, whatever the split of the bytes over TCP reads: at any time the   *)
(* messages returned so far are the first messages of the stream, none     *)
(* duplicated, reordered or skipped.  (read_one_message returns the        *)
(* messages of the calls through the FIFO, in their order.)                *)
(***************************************************************************)
C38_InOrderExactlyOnce ==
    (OnePiece(pB).res.ok /\ ~IsSome(pErr)) =>
        /\ Len(pOut) <= Len(StreamMessages)
        /\ pOut = SubSeq(StreamMessages, 1, Len(pOut))

(***************************************************************************)
(* Building a router with route, fallback, layer and merge, then           *)
(* dispatching one request on it, as Router::handle does after serve took  *)
(* the router.                                                             *)
(***************************************************************************)
\* the locations the builder calls use; the last two fail the asserts
Locations == { "/a", "/:u", "/a/*", "a", "" }

\* the agi_request values dispatched
DispatchUrls == { "agi://h/a", "agi://h/a/b", "agi://h/b", "agi://h" }

\* what is remembered about a route: the router it was added to ("later" for
\* a route added to a after the merge), its pattern, the handler it was added with, the layers applied since
Registered(origin, location, handler) ==
    [origin |-> origin, path |-> LocationPath(location), base |-> handler,
     layers |-> << >>]

InitRouter ==
    /\ rA = Router_new
    /\ rB = Router_new
    /\ rGhostA = << >>
    /\ rGhostB = << >>
    /\ rOps = 0
    /\ rMerged = FALSE
    /\ rPanic = FALSE
    /\ rDispatch = None
    /\ IdleParser
    /\ IdleSession
    /\ IdleCommand
    /\ IdleStatus
    /\ IdleDump
    /\ IdleMatch
    /\ IdleServe

Building == rOps < MaxOps /\ ~rPanic /\ rDispatch = None

\* a.route(location, handler)
RouteA(location) ==
    /\ Building
    /\ rOps' = rOps + 1
    /\ LET handler == UserHandler("a" \o ToString(Len(rA.routes) + 1))
           origin == IF rMerged THEN "later" ELSE "a"
       IN  IF RouteAsserts(location)
           THEN /\ rA' = Router_route(rA, location, handler)
                /\ rGhostA' = Append(rGhostA, Registered(origin, location, handler))
                /\ UNCHANGED rPanic
           ELSE /\ rPanic' = TRUE
                /\ UNCHANGED << rA, rGhostA >>
    /\ UNCHANGED << rB, rGhostB, rMerged, rDispatch, varsP, varsS, varsC, varsT, varsD, varsM, varsV >>

\* b.route(location, handler), before b is merged into a
RouteB(location) ==
    /\ Building
    /\ ~rMerged
    /\ rOps' = rOps + 1
    /\ LET handler == UserHandler("b" \o ToString(Len(rB.routes) + 1))
       IN  IF RouteAsserts(location)
           THEN /\ rB' = Router_route(rB, location, handler)
                /\ rGhostB' = Append(rGhostB, Registered("b", location, handler))
                /\ UNCHANGED rPanic
           ELSE /\ rPanic' = TRUE
                /\ UNCHANGED << rB, rGhostB >>
    /\ UNCHANGED << rA, rGhostA, rMerged, rDispatch, varsP, varsS, varsC, varsT, varsD, varsM, varsV >>

\* a.fallback(handler)
FallbackA ==
    /\ Building
    /\ rOps' = rOps + 1
    /\ rA' = Router_fallback(rA, UserHandler("fa" \o ToString(rOps + 1)))
    /\ UNCHANGED << rB, rGhostA, rGhostB, rMerged, rPanic, rDispatch, varsP, varsS, varsC, varsT, varsD, varsM, varsV >>

\* b.fallback(handler)
FallbackB ==
    /\ Building
    /\ ~rMerged
    /\ rOps' = rOps + 1
    /\ rB' = Router_fallback(rB, UserHandler("fb" \o ToString(rOps + 1)))
    /\ UNCHANGED << rA, rGhostA, rGhostB, rMerged, rPanic, rDispatch, varsP, varsS, varsC, varsT, varsD, varsM, varsV >>

\* the routes remembered, with one more layer applied to each
Layered(ghost, handler) ==
    [i \in 1..Len(ghost) |-> [ghost[i] EXCEPT !.layers = Append(@, handler)]]

\* a.layer(AndThenLayerBefore::new(handler))
LayerA ==
    /\ Building
    /\ rOps' = rOps + 1
    /\ LET handler == UserHandler("L" \o ToString(rOps + 1))
       IN  /\ rA' = Router_layer(rA, AndThenLayerBefore_new(handler))
           /\ rGhostA' = Layered(rGhostA, handler)
    /\ UNCHANGED << rB, rGhostB, rMerged, rPanic, rDispatch, varsP, varsS, varsC, varsT, varsD, varsM, varsV >>

\* b.layer(AndThenLayerBefore::new(handler))
LayerB ==
    /\ Building
    /\ ~rMerged
    /\ rOps' = rOps + 1
    /\ LET handler == UserHandler("L" \o ToString(rOps + 1))
       IN  /\ rB' = Router_layer(rB, AndThenLayerBefore_new(handler))
           /\ rGhostB' = Layered(rGhostB, handler)
    /\ UNCHANGED << rA, rGhostA, rMerged, rPanic, rDispatch, varsP, varsS, varsC, varsT, varsD, varsM, varsV >>

\* a.merge(b): b is moved into the call
Merge ==
    /\ Building
    /\ ~rMerged
    /\ rOps' = rOps + 1
    /\ rMerged' = TRUE
    /\ rA' = Router_merge(rA, rB)
    /\ rGhostA' = rGhostA \o rGhostB
    /\ UNCHANGED << rB, rGhostB, rPanic, rDispatch, varsP, varsS, varsC, varsT, varsD, varsM, varsV >>

\* route_request on a for a FastAGI request, the call site in Router::handle
Dispatch(url) ==
    /\ ~rPanic
    /\ rDispatch = None
    /\ LET agi_request == AGIRequestType_from_str(url)
       IN  /\ agi_request.kind = "FastAGI"
           /\ rDispatch' = Some([url |-> Unwrap(agi_request.url),
                                 res |-> route_request(rA, agi_request)])
    /\ UNCHANGED << rA, rB, rGhostA, rGhostB, rOps, rMerged, rPanic, varsP, varsS, varsC, varsT, varsD, varsM, varsV >>

NextRouter ==
    \/ \E location \in Locations : RouteA(location)
    \/ \E location \in Locations : RouteB(location)
    \/ FallbackA
    \/ FallbackB
    \/ LayerA
    \/ LayerB
    \/ Merge
    \/ \E url \in DispatchUrls : Dispatch(url)

SpecRouter == InitRouter /\ [][NextRouter]_vars

\* the routes of self whose pattern matches url
Matching(self, url) ==
    {i \in 1..Len(self.routes) : path_matches(self.routes[i].path, url).kind = "Some"}

(***************************************************************************)
(* C6: first match wins.  route_request returns the handler of the first   *)
(* route, in insertion order, whose pattern matches the request URL (with  *)
(* that route's captures and wildcard), even when a later route matches    *)
(* too; when no route matches it returns the fallback handler with empty   *)
(* captures and no wildcard.                                               *)
(***************************************************************************)
C6_FirstMatchWins ==
    IsSome(rDispatch) =>
        LET d == Unwrap(rDispatch)
            matching == Matching(rA, d.url)
        IN  IF matching = {}
            THEN d.res = Routed(0, rA.fallback, EmptyMap, None)
            ELSE LET first == CHOOSE i \in matching : \A j \in matching : i <= j
                     m == path_matches(rA.routes[first].path, d.url)
                 IN  d.res = Routed(first, rA.routes[first].handler,
                                    m.captures, m.wildcards)

\* the layers applied to base, in the order of their application
RECURSIVE Wrapped(_, _)
Wrapped(base, layers) ==
    IF layers = << >> THEN base
    ELSE Wrapped(AndThenHandler_new(Head(layers), base), Tail(layers))

LayerScope(self, ghost) ==
    /\ Len(self.routes) = Len(ghost)
    /\ \A i \in 1..Len(ghost) :
          /\ self.routes[i].path = ghost[i].path
          /\ self.routes[i].handler = Wrapped(ghost[i].base, ghost[i].layers)
    /\ self.fallback.kind \in {"fallback", "user"}

(***************************************************************************)
(* C7: layer scope.  The handler of every route is its own handler wrapped *)
(* by exactly the layers applied after the route was added, the latest     *)
(* layer outermost and each layer's handler as the `first` of the chain    *)
(* (so it runs before the route's handler); routes added after a layer     *)
(* call are not wrapped by it, patterns and order are as registered, and   *)
(* the fallback is never a chain.                                          *)
(***************************************************************************)
C7_LayerScope == LayerScope(rA, rGhostA) /\ LayerScope(rB, rGhostB)

\* a layered route followed by a route added after the layer call
C7_Witness ==
    \E i, j \in 1..Len(rGhostA) :
        /\ i < j
        /\ rGhostA[i].layers # << >>
        /\ rGhostA[j].layers = << >>
        /\ rGhostA[i].origin = "a" /\ rGhostA[j].origin = "a"
        /\ rA.routes[i].handler.kind = "and_then"
        /\ rA.routes[j].handler.kind = "user"

\* a URL matched by a route of a and a route of b goes to a route of a
MergedDispatch ==
    (rMerged /\ IsSome(rDispatch)) =>
        LET d == Unwrap(rDispatch)
            matchedBy(origin) ==
                \E i \in Matching(rA, d.url) : rGhostA[i].origin = origin
        IN  (matchedBy("a") /\ matchedBy("b")) =>
                /\ ~d.res.panic
                /\ d.res.idx > 0
                /\ rGhostA[d.res.idx].origin = "a"

\* a.merge(b) appends b's routes to a's and keeps a's fallback
MergeStep ==
    (~rMerged /\ rMerged') =>
        /\ rA'.routes = rA.routes \o rB.routes
        /\ rA'.fallback = rA.fallback

(***************************************************************************)
(* C8: merge.  After a.merge(b) the route list is a's routes in their      *)
(* order followed by b's routes in their order and the fallback is a's;    *)
(* so a URL matched by a route of a and by a route of b is dispatched to   *)
(* a's route.                                                              *)
(***************************************************************************)
C8_Merge == [][MergeStep]_vars /\ []MergedDispatch

\* every pattern stored has a segment and is the split of a location that
\* starts with '/'
PatternsRooted(self) ==
    \A i \in 1..Len(self.routes) :
        /\ Len(self.routes[i].path) >= 1
        /\ \E location \in Locations :
              /\ location # ""
              /\ SubSeq(location, 1, 1) = "/"
              /\ self.routes[i].path = Tail(Split(location, "/"))

\* a builder call that panics has stored nothing
PanicStoresNothing == (~rPanic /\ rPanic') => (rA' = rA /\ rB' = rB)

(***************************************************************************)
(* C28: Router::route panics at construction when the pattern is the empty *)
(* string or does not start with `/`; so every pattern stored in a router  *)
(* built with route, merge, layer and fallback has at least one segment    *)
(* and came from a string starting with `/`.                               *)
(***************************************************************************)
C28_RouteAsserts ==
    [][PanicStoresNothing]_vars /\ [](PatternsRooted(rA) /\ PatternsRooted(rB))

\* a route call panicked on a router that holds merged and layered routes
C28_Witness ==
    /\ rPanic
    /\ rMerged
    /\ \E i \in 1..Len(rA.routes) : rA.routes[i].handler.kind = "and_then"

(***************************************************************************)
(* Running handlers.  The handlers running in a session form a stack: an   *)
(* AndThenHandler waits for the handler it invoked, which is above it.     *)
(***************************************************************************)
\* a running handler: what it was invoked with, where it is (an
\* AndThenHandler in "first" or "second", the FallbackHandler at "start" or
\* "sent", a user handler in its "body"), what its last send_command
\* returned, and for an AndThenHandler what its two handlers returned
Frame(h, req) ==
    [h |-> h, req |-> req,
     stage |-> CASE h.kind = "and_then" -> "first"
                 [] h.kind = "fallback" -> "start"
                 [] OTHER -> "body",
     reply |-> None, firstRes |-> None, secondRes |-> None]

Invoked(h, req) ==
    [ev |-> "invoke", h |-> h, req |-> req, res |-> None,
     firstRes |-> None, secondRes |-> None]
Returned(frame, res) ==
    [ev |-> "return", h |-> frame.h, req |-> frame.req, res |-> Some(res),
     firstRes |-> frame.firstRes, secondRes |-> frame.secondRes]

\* handler.handle(connection, request): an AndThenHandler at once invokes
\* its first handler with the request it was given
RECURSIVE Enter(_, _, _, _)
Enter(stack, events, h, req) ==
    LET pushed == Append(stack, Frame(h, req))
        noted == Append(events, Invoked(h, req))
    IN  IF h.kind = "and_then" THEN Enter(pushed, noted, Unwrap(h.first), req)
        ELSE [frames |-> pushed, log |-> noted, outcome |-> None]

\* the `?` after self.first.handle(..).await, had it discarded the error
AndThenAlwaysSecond(res) == "second"

\* the `?` after self.first.handle(..).await in AndThenHandler::handle
AndThenAfterFirst(res) == IF res.ok THEN "second" ELSE "return"

\* the stack with its top frame replaced
WithTop(stack, frame) == [stack EXCEPT ![Len(stack)] = frame]

\* the handler on top of the stack returns res
RECURSIVE Unwind(_, _, _)
Unwind(stack, events, res) ==
    LET top == stack[Len(stack)]
        noted == Append(events, Returned(top, res))
        rest == SubSeq(stack, 1, Len(stack) - 1)
    IN  IF rest = << >> THEN [frames |-> << >>, log |-> noted, outcome |-> Some(res)]
        ELSE LET parent == rest[Len(rest)]
             IN  IF parent.stage = "first"
                 THEN LET waited == [parent EXCEPT !.firstRes = Some(res)]
                      IN  IF AndThenAfterFirst(res) = "second"
                          THEN Enter(WithTop(rest, [waited EXCEPT !.stage = "second"]),
                                     noted, Unwrap(parent.h.second), parent.req)
                          ELSE Unwind(WithTop(rest, waited), noted, res)
                 ELSE Unwind(WithTop(rest, [parent EXCEPT !.secondRes = Some(res)]),
                             noted, res)

\* AGIRequest
AGIRequest(variables, captures, wildcards) ==
    [variables |-> variables, captures |-> captures, wildcards |-> wildcards]

(***************************************************************************)
(* One session: Router::handle on an accepted connection, and the peer at  *)
(* the other end of the stream.                                            *)
(***************************************************************************)
\* the router given to serve:
\* Router::new().route("/a", a1).layer(L1).layer(L2).route("/:u", a2)
ServedRouter ==
    LET routed == Router_route(Router_new, "/a", UserHandler("a1"))
        once == Router_layer(routed, AndThenLayerBefore_new(UserHandler("L1")))
        twice == Router_layer(once, AndThenLayerBefore_new(UserHandler("L2")))
    IN  Router_route(twice, "/:u", UserHandler("a2"))

\* what the peer may send in one segment
PeerSegments ==
    { NetworkStartLine,
      DumpText("agi://h/a"), DumpText("agi://h/a/b"), DumpText("agi://h"),
      DumpText("/tmp/agi.sh"),
      NetworkStartLine \o DumpText("agi://h/a"),
      "200 result=1\n", "404 result=1\n", "200\n",
      DumpText("http://h/a"),
      DumpTextWithArgs("agi://h/a", "agi_arg_1: a\nagi_arg_1: b\n") }

\* the user handlers: the handlers of the layers return a result, the
\* handlers of the routes may first send one command
UserCommands == { Verbose("hi") }
Senders == { "a1", "a2" }

\* what a user handler may return of its own
UserResults == { Ok("unit"), Err("ClientSideError", ""), Err("InnerError", "") }

Init ==
    /\ router = ServedRouter
    /\ pc = "read1"
    /\ this_message = ""
    /\ queued_messages = << >>
    /\ wire = ""
    /\ peer_closed = FALSE
    /\ sends = 0
    /\ written = ""
    /\ cmd = None
    /\ frames = << >>
    /\ request = None
    /\ outcome = None
    /\ delivered = << >>
    /\ tcp_reads = 0
    /\ batch = [msgs |-> << >>, at |-> 0]
    /\ log = << >>
    /\ replies = << >>
    /\ atWrite = None
    /\ read_errors = << >>
    /\ IdleParser
    /\ IdleRouter
    /\ IdleCommand
    /\ IdleStatus
    /\ IdleDump
    /\ IdleMatch
    /\ IdleServe

\* the handlers entered are running
Entered(entered) ==
    /\ frames' = entered.frames
    /\ log' = entered.log

Live == pc \notin {"closed", "panicked"}
Reading == pc \in {"read1", "read2", "reply"}
Top == frames[Len(frames)]

\* the peer sends a segment
PeerSend(seg) ==
    /\ Live
    /\ ~peer_closed
    /\ sends < MaxPeerSends
    /\ wire' = wire \o seg
    /\ sends' = sends + 1
    /\ UNCHANGED << router, read_errors,
                    pc, this_message, queued_messages, peer_closed, written,
                    cmd, frames, request, outcome, delivered, tcp_reads, batch, log,
                    replies, atWrite, varsP, varsR,
                    varsC, varsT, varsD, varsM, varsV >>

\* the peer closes its side of the stream
PeerClose ==
    /\ Live
    /\ ~peer_closed
    /\ peer_closed' = TRUE
    /\ UNCHANGED << router, read_errors,
                    pc, this_message, queued_messages, wire, sends, written,
                    cmd, frames, request, outcome, delivered, tcp_reads, batch, log,
                    replies, atWrite, varsP, varsR,
                    varsC, varsT, varsD, varsM, varsV >>

\* the first match of Router::handle, had it accepted any first packet
FirstPacketAny(m) == TRUE

\* the first match of Router::handle, had it returned only for a dump
FirstPacketNotDump(m) == m.type # "VariableDump"

\* the first match of Router::handle: the first packet is agi_network: yes
FirstPacketOk(m) == m = NetworkStart

\* the `if let` of Router::handle, had it taken every request type
RequestIsAny(request_data) == TRUE

\* `if let AGIRequestType::FastAGI(_) = request_data.request`
RequestIsFastAGI(request_data) == request_data.vals["request"].kind = "FastAGI"

\* Router::handle after route_request returned routed for the dump
\* request_data (or panicked): the AGIRequest is built and the handler invoked
Dispatched(request_data, routed) ==
    IF routed.panic
    THEN /\ pc' = "panicked"
         /\ UNCHANGED << frames, request, outcome, log, replies, cmd >>
    ELSE /\ pc' = "run"
         /\ request' = Some(AGIRequest(request_data, routed.captures, routed.wildcards))
         /\ Entered(Enter(<< >>, log, routed.handler,
                          AGIRequest(request_data, routed.captures, routed.wildcards)))
         /\ UNCHANGED << outcome, replies, cmd >>

\* send_command returns to the handler that called it
Replied(returned) ==
    /\ pc' = "run"
    /\ frames' = WithTop(frames, [Top EXCEPT !.reply = Some(returned)])
    /\ replies' = Append(replies, [command |-> Unwrap(cmd), res |-> returned,
                                  atWrite |-> atWrite])
    /\ cmd' = None
    /\ UNCHANGED << request, outcome, log >>

\* the caller of read_one_message goes on with what it returned
Continue(res) ==
    CASE pc = "read1" ->
            /\ pc' = IF res.ok /\ FirstPacketOk(res.val) THEN "read2" ELSE "closed"
            /\ UNCHANGED << frames, request, outcome, log, replies, cmd >>
      [] pc = "read2" ->
            IF res.ok /\ res.val.type = "VariableDump"
                      /\ RequestIsFastAGI(Unwrap(res.val.dump))
            THEN Dispatched(Unwrap(res.val.dump),
                            route_request(router, Unwrap(res.val.dump).vals["request"]))
            ELSE /\ pc' = "closed"
                 /\ UNCHANGED << frames, request, outcome, log, replies, cmd >>
      [] pc = "reply" ->
            Replied(IF res.ok
                    THEN agi_response_as_specialized_status(Unwrap(cmd).name, res.val)
                    ELSE Err("ParseError", res.err.kind))

\* read_one_message, had it read from the stream whatever the FIFO holds
FifoIgnored(queue) == TRUE

\* read_one_message: pop_front() returned None
FifoEmpty(queue) == queue = << >>

\* read_one_message: pop_front() returned a message
PopFront ==
    /\ Reading
    /\ queued_messages # << >>
    /\ queued_messages' = Tail(queued_messages)
    /\ delivered' = Append(delivered, Head(queued_messages))
    /\ Continue(Ok(Head(queued_messages)))
    /\ UNCHANGED << router, read_errors,
                    this_message, wire, peer_closed, sends, written,
                    tcp_reads, batch, atWrite, varsP, varsR,
                    varsC, varsT, varsD, varsM, varsV >>

\* stream.read(&mut ephemeral_buf)
bytes_read == Min(Len(wire), ReadBufSize)

\* Connection::read_single_call
read_single_call ==
    IF bytes_read = 0 THEN BufResult(Err("NoBytes", ""), this_message)
    ELSE handle_single_call_buffer(this_message, Upto(wire, bytes_read))

\* read_one_message after read_single_call: `?`, then the push_back loop
ReadReturned(new_messages) ==
    /\ this_message' = new_messages.this_message
    /\ IF new_messages.res.ok
       THEN /\ queued_messages' = queued_messages \o new_messages.res.val
            /\ batch' = [msgs |-> new_messages.res.val, at |-> Len(delivered)]
            /\ UNCHANGED << pc, frames, request, outcome, log, replies, cmd,
                            read_errors >>
       ELSE /\ batch' = [msgs |-> << >>, at |-> Len(delivered)]
            /\ read_errors' = Append(read_errors, new_messages.res.err)
            /\ Continue(new_messages.res)
            /\ UNCHANGED queued_messages

\* stream.read(..).await, had it returned only when bytes arrived
ReadReadyOnData == wire # ""

\* stream.read(..).await returns when bytes arrived or the peer closed
ReadReady == wire # "" \/ peer_closed

\* read_one_message: read_single_call, then the messages are queued
TcpRead ==
    /\ Reading
    /\ FifoEmpty(queued_messages)
    /\ ReadReady
    /\ tcp_reads' = tcp_reads + 1
    /\ wire' = From(wire, bytes_read + 1)
    /\ ReadReturned(read_single_call)
    /\ UNCHANGED << router, peer_closed, sends, written, delivered, atWrite,
                    varsP, varsR,
                    varsC, varsT, varsD, varsM, varsV >>

Running == pc = "run" /\ frames # << >>

\* Router::handle, had it read the next request after the handler returned
UnwoundKeepsServing(unwound) ==
    /\ frames' = unwound.frames
    /\ log' = unwound.log
    /\ outcome' = unwound.outcome
    /\ pc' = IF unwound.frames = << >> THEN "read2" ELSE "run"

\* the handler on top of the stack returns res; the session ends when the
\* routed handler returns (unwound is the stack and the log then)
Unwound(unwound) ==
    /\ frames' = unwound.frames
    /\ log' = unwound.log
    /\ outcome' = unwound.outcome
    /\ pc' = IF unwound.frames = << >> THEN "closed" ELSE "run"

Finish(res) == Unwound(Unwind(frames, log, res))

\* a user handler calls connection.send_command(c)
UserSend(c) ==
    /\ Running
    /\ Top.h.kind = "user"
    /\ Top.h.id \in Senders
    /\ Top.reply = None
    /\ cmd' = Some(c)
    /\ pc' = "write"
    /\ UNCHANGED << router, read_errors,
                    this_message, queued_messages, wire, peer_closed, sends,
                    written, frames, request, outcome, delivered, tcp_reads, batch,
                    log, replies, atWrite, varsP, varsR,
                    varsC, varsT, varsD, varsM, varsV >>

\* a user handler returns a result of its own
UserReturn(res) ==
    /\ Running
    /\ Top.h.kind = "user"
    /\ Finish(res)
    /\ UNCHANGED << router, read_errors,
                    this_message, queued_messages, wire, peer_closed, sends,
                    written, cmd, request, delivered, tcp_reads, batch, replies,
                    atWrite, varsP, varsR,
                    varsC, varsT, varsD, varsM, varsV >>

\* a user handler returns the error of its send_command (`?`)
UserPropagate ==
    /\ Running
    /\ Top.h.kind = "user"
    /\ IsSome(Top.reply)
    /\ ~Unwrap(Top.reply).ok
    /\ Finish(Unwrap(Top.reply))
    /\ UNCHANGED << router, read_errors,
                    this_message, queued_messages, wire, peer_closed, sends,
                    written, cmd, request, delivered, tcp_reads, batch, replies,
                    atWrite, varsP, varsR,
                    varsC, varsT, varsD, varsM, varsV >>

\* FallbackHandler::handle: send_command(Verbose::new("Route not found"))
FallbackSend ==
    /\ Running
    /\ Top.h.kind = "fallback"
    /\ Top.stage = "start"
    /\ cmd' = Some(Verbose("Route not found"))
    /\ frames' = WithTop(frames, [Top EXCEPT !.stage = "sent"])
    /\ pc' = "write"
    /\ UNCHANGED << router, read_errors,
                    this_message, queued_messages, wire, peer_closed, sends,
                    written, request, outcome, delivered, tcp_reads, batch,
                    log, replies, atWrite, varsP, varsR,
                    varsC, varsT, varsD, varsM, varsV >>

\* FallbackHandler::handle: `.await?; Ok(())`
FallbackFinish ==
    /\ Running
    /\ Top.h.kind = "fallback"
    /\ Top.stage = "sent"
    /\ Finish(IF Unwrap(Top.reply).ok THEN Ok("unit") ELSE Unwrap(Top.reply))
    /\ UNCHANGED << router, read_errors,
                    this_message, queued_messages, wire, peer_closed, sends,
                    written, cmd, request, delivered, tcp_reads, batch, replies,
                    atWrite, varsP, varsR,
                    varsC, varsT, varsD, varsM, varsV >>

\* the byte counts one write of text may report: all of it, or a part
WriteCounts(text) == { Len(text), Len(text) \div 2 }

\* whether a whole message of the peer is already held by the connection or
\* on its way to it
Yields(held) == held.res.ok /\ held.res.val # << >>
MessagePending ==
    \/ queued_messages # << >>
    \/ Yields(handle_single_call_buffer(this_message, wire))

\* command.to_string() of the command being sent
string_to_send == IF IsSome(cmd) THEN Unwrap(cmd).text ELSE ""

\* send_command: stream.write(string_to_send.as_bytes()) reports n bytes
\* written, and send_command goes on to read_one_message
Write(n) ==
    /\ pc = "write"
    /\ written' = written \o Upto(string_to_send, n)
    /\ atWrite' = Some([before |-> written, pending |-> MessagePending])
    /\ pc' = "reply"
    /\ UNCHANGED << router, read_errors,
                    this_message, queued_messages, wire, peer_closed, sends,
                    cmd, frames, request, outcome, delivered, tcp_reads, batch,
                    log, replies, varsP, varsR,
                    varsC, varsT, varsD, varsM, varsV >>

\* send_command: the write fails, CannotSendCommand is returned
WriteFail ==
    /\ pc = "write"
    /\ peer_closed
    /\ LET returned == Err("CannotSendCommand", "")
       IN  /\ frames' = WithTop(frames, [Top EXCEPT !.reply = Some(returned)])
           /\ replies' = Append(replies, [command |-> Unwrap(cmd), res |-> returned,
                                         atWrite |-> None])
    /\ cmd' = None
    /\ pc' = "run"
    /\ UNCHANGED << router, read_errors,
                    this_message, queued_messages, wire, peer_closed, sends,
                    written, request, outcome, delivered, tcp_reads, batch,
                    log, atWrite, varsP, varsR,
                    varsC, varsT, varsD, varsM, varsV >>

Next ==
    \/ \E seg \in PeerSegments : PeerSend(seg)
    \/ PeerClose
    \/ PopFront
    \/ TcpRead
    \/ \E c \in UserCommands : UserSend(c)
    \/ \E res \in UserResults : UserReturn(res)
    \/ UserPropagate
    \/ FallbackSend
    \/ FallbackFinish
    \/ \E n \in WriteCounts(string_to_send) : Write(n)
    \/ WriteFail

Spec == Init /\ [][Next]_vars

(***************************************************************************)
(* C1: handshake before handlers.  A handler (a route's handler or the     *)
(* fallback) is invoked, and a command byte is written to the peer, only   *)
(* after the first message delivered on the connection was NetworkStart    *)
(* and the second was a VariableDump.                                      *)
(***************************************************************************)
C1_HandshakeBeforeHandler ==
    (log # << >> \/ frames # << >> \/ written # "" \/ IsSome(cmd)) =>
        /\ Len(delivered) >= 2
        /\ delivered[1] = NetworkStart
        /\ delivered[2].type = "VariableDump"

\* a handler was invoked and wrote a command
C1_Witness ==
    /\ log # << >>
    /\ written # ""
    /\ delivered[1] = NetworkStart
    /\ delivered[2].type = "VariableDump"

(***************************************************************************)
(* C3: no panic.  Whatever bytes the peer sends, the session never         *)
(* panics: it ends in a normal close or a returned error value.            *)
(***************************************************************************)
C3_NoPanic == pc # "panicked"

(***************************************************************************)
(* C4: the reply belongs to the command.  A status that send_command(C)    *)
(* returns was sent by the peer after C was written: no whole message was  *)
(* held in the connection's FIFO, in its accumulator or in the stream when *)
(* C was written.                                                          *)
(***************************************************************************)
C4_ReplySentAfterCommand ==
    \A i \in 1..Len(replies) :
        replies[i].res.ok => ~Unwrap(replies[i].atWrite).pending

(***************************************************************************)
(* C5: the whole command is written.  When send_command starts reading     *)
(* the reply, every byte of the rendered command has been written to the   *)
(* stream, also when a write accepted only a part of the bytes.            *)
(***************************************************************************)
C5_WholeCommandWritten ==
    pc = "reply" => written = Unwrap(atWrite).before \o string_to_send

\* the return of a chain handler noted at position i of the log
ChainReturn(i) == log[i].ev = "return" /\ log[i].h.kind = "and_then"

(***************************************************************************)
(* C9: chain handler.  An AndThenHandler first invokes `first` with the    *)
(* request it was given; it invokes `second` only if `first` returned Ok,  *)
(* with the same request, and then returns what `second` returned; if      *)
(* `first` returned an error, `second` is not invoked and the chain        *)
(* returns that error unchanged.                                           *)
(***************************************************************************)
C9_AndThen ==
    \A i \in 1..Len(log) :
        /\ (log[i].ev = "invoke" /\ log[i].h.kind = "and_then") =>
              /\ i < Len(log)
              /\ log[i + 1] = Invoked(Unwrap(log[i].h.first), log[i].req)
        /\ (log[i].ev = "invoke" /\ i > 1 /\ log[i - 1].ev = "return") =>
              /\ Unwrap(log[i - 1].res).ok
              /\ log[i].req = log[i - 1].req
        /\ ChainReturn(i) =>
              /\ IsSome(log[i].firstRes)
              /\ IF Unwrap(log[i].firstRes).ok
                 THEN /\ IsSome(log[i].secondRes)
                      /\ log[i - 1].ev = "return"
                      /\ log[i - 1].h = Unwrap(log[i].h.second)
                      /\ log[i - 1].req = log[i].req
                      /\ log[i].res = log[i].secondRes
                 ELSE /\ log[i].secondRes = None
                      /\ log[i].res = log[i].firstRes
                      /\ \A j \in 1..i :
                            ~(log[j].ev = "invoke"
                              /\ log[j].h = Unwrap(log[i].h.second))

\* a chain whose first handler failed, inside a chain whose first handler
\* succeeded and which returned what its second handler returned
C9_Witness ==
    \E i, j \in 1..Len(log) :
        /\ ChainReturn(i) /\ ~Unwrap(log[i].firstRes).ok
        /\ ChainReturn(j) /\ Unwrap(log[j].firstRes).ok
        /\ log[j].res = log[j].secondRes

\* the messages of the last TCP read are returned in their order, and the
\* FIFO holds those not yet returned
BatchInOrder ==
    LET k == Len(batch.msgs)
        taken == Len(delivered) - batch.at
    IN  /\ taken <= k
        /\ SubSeq(delivered, batch.at + 1, Len(delivered)) = SubSeq(batch.msgs, 1, taken)
        /\ queued_messages = SubSeq(batch.msgs, taken + 1, k)

\* a TCP read is made with an empty FIFO
ReadOnlyWhenEmpty == (tcp_reads' # tcp_reads) => queued_messages = << >>

(***************************************************************************)
(* C10: read_one_message performs a TCP read only when the FIFO of parsed  *)
(* messages is empty; the k messages one read yielded are returned one by  *)
(* one, in order, by the next calls without any further TCP read.          *)
(***************************************************************************)
C10_ReadOnlyWhenFifoEmpty == [][ReadOnlyWhenEmpty]_vars /\ []BatchInOrder

\* one read yielded NetworkStart and the VariableDump, and both were returned
C10_Witness ==
    /\ Len(batch.msgs) >= 2
    /\ Len(delivered) - batch.at = Len(batch.msgs)
    /\ tcp_reads = 1

\* the second message delivered is a variable dump
DumpDelivered == Len(delivered) >= 2 /\ delivered[2].type = "VariableDump"
\* the agi_request of that dump
DeliveredRequest == Unwrap(delivered[2].dump).vals["request"]

\* no handler was invoked and nothing was sent
NoHandlerRan ==
    /\ log = << >>
    /\ frames = << >>
    /\ request = None
    /\ written = ""
    /\ cmd = None

(***************************************************************************)
(* C13: no handler (a route's handler or the fallback) is invoked for a    *)
(* variable dump whose agi_request parsed as a file path: the session      *)
(* closes without sending a command, and it does not reach the panic of    *)
(* route_request for a request that is not FastAGI.                        *)
(***************************************************************************)
C13_FileRequestClosed ==
    (DumpDelivered /\ DeliveredRequest.kind = "File") =>
        /\ pc = "closed"
        /\ NoHandlerRan

\* the dump of /tmp/agi.sh was delivered after the NetworkStart
C13_Witness ==
    /\ DumpDelivered
    /\ delivered[1] = NetworkStart
    /\ DeliveredRequest.kind = "File"
    /\ DeliveredRequest.file = "/tmp/agi.sh"
    /\ pc = "closed"

(***************************************************************************)
(* C14: a variable dump whose agi_request is a URL with a scheme other     *)
(* than `agi` is not accepted as a FastAGI request: no handler (a route's  *)
(* handler or the fallback) is invoked for it.                             *)
(***************************************************************************)
C14_OnlyAgiScheme ==
    (DumpDelivered /\ DeliveredRequest.kind = "FastAGI"
                   /\ Unwrap(DeliveredRequest.url).scheme # "agi") =>
        NoHandlerRan

\* a read of the handshake failed with an error of this kind
HandshakeFailedWith(kind) ==
    /\ Len(delivered) < 2
    /\ \E i \in 1..Len(read_errors) : read_errors[i].kind = kind

(***************************************************************************)
(* C17: custom-args uniqueness.  No variable dump in which the same index  *)
(* n is on two agi_arg_<n> lines is accepted: parsing fails with           *)
(* DuplicateCustomArg, no handler runs and the connection closes.  The     *)
(* only dump with agi_arg lines the peer sends here has the index 1 twice, *)
(* so no dump delivered holds a custom argument.                           *)
(***************************************************************************)
C17_DuplicateCustomArg ==
    /\ HandshakeFailedWith("DuplicateCustomArg") =>
          /\ pc = "closed"
          /\ NoHandlerRan
    /\ \A i \in 1..Len(delivered) :
          delivered[i].type = "VariableDump" =>
              Unwrap(delivered[i].dump).custom_args = << >>
    /\ \A i \in 1..Len(read_errors) :
          read_errors[i].kind = "DuplicateCustomArg" =>
              read_errors[i].text = "agi_arg_1"

\* the dump with two agi_arg_1 lines was read after the NetworkStart
C17_Witness ==
    /\ delivered = << NetworkStart >>
    /\ HandshakeFailedWith("DuplicateCustomArg")
    /\ pc = "closed"

\* the messages of one read hold a NetworkStart at the first place only
NetworkStartFirst ==
    \A i \in 2..Len(batch.msgs) : batch.msgs[i] # NetworkStart

\* the session that hits the error during its handshake closes
LateNetworkStartCloses ==
    HandshakeFailedWith("NetworkStartAfterOtherMessage") =>
        /\ pc = "closed"
        /\ NoHandlerRan
        /\ batch.msgs = << >>
        /\ queued_messages = << >>

(***************************************************************************)
(* C20: within one scan of the accumulator (one handle_single_call_buffer  *)
(* call), a NetworkStart peeled after another message was peeled in that   *)
(* call makes the call fail with NetworkStartAfterOtherMessage and return  *)
(* no message; so a returned message list has no NetworkStart but at its   *)
(* first place, and the session that hits this during its handshake        *)
(* closes without running a handler.                                       *)
(***************************************************************************)
C20_NetworkStartAfterOtherMessage == NetworkStartFirst /\ LateNetworkStartCloses

\* a read of the handshake peeled a NetworkStart after another message
C20_Witness ==
    /\ HandshakeFailedWith("NetworkStartAfterOtherMessage")
    /\ tcp_reads >= 1
    /\ pc = "closed"

\* the returns of the FallbackHandler noted in the log
FallbackReturns == {i \in 1..Len(log) : log[i].ev = "return" /\ log[i].h.kind = "fallback"}

(***************************************************************************)
(* C23: the default fallback handler, used when no route matches, sends    *)
(* exactly one command, VERBOSE "Route not found", and then returns        *)
(* success.                                                                *)
(***************************************************************************)
C23_DefaultFallback ==
    \A i \in FallbackReturns :
        /\ log[i].res = Some(Ok("unit"))
        /\ Len(replies) = 1
        /\ replies[1].command = Verbose("Route not found")
        /\ written = Verbose("Route not found").text

\* the first read_one_message of the session did not return NetworkStart
FirstReadRefused ==
    \/ Len(delivered) >= 1 /\ delivered[1] # NetworkStart
    \/ delivered = << >> /\ read_errors # << >>

(***************************************************************************)
(* C27: if the first message read on a connection is anything other than   *)
(* NetworkStart, or the first read fails, the session closes without       *)
(* writing a byte to the peer, without reading a second message and        *)
(* without invoking a handler.                                             *)
(***************************************************************************)
C27_FirstMessageRefused ==
    FirstReadRefused =>
        /\ pc = "closed"
        /\ NoHandlerRan
        /\ Len(delivered) + Len(read_errors) = 1
        /\ batch.at = 0

\* a variable dump came first and the session closed
C27_Witness ==
    /\ Len(delivered) = 1
    /\ delivered[1].type = "VariableDump"
    /\ pc = "closed"
    /\ written = ""

\* the invocations of a handler the router holds: of a route or the fallback
TopLevelInvocations ==
    {i \in 1..Len(log) :
        /\ log[i].ev = "invoke"
        /\ \/ log[i].h = router.fallback
           \/ \E r \in 1..Len(router.routes) : log[i].h = router.routes[r].handler}

\* the session after the routed handler returned
HandlerReturnedCloses ==
    IsSome(outcome) => (pc = "closed" /\ frames = << >> /\ cmd = None)

\* no read, write or invocation after the routed handler returned
NothingAfterReturn ==
    IsSome(outcome) =>
        UNCHANGED << pc, written, tcp_reads, delivered, queued_messages,
                     this_message, log, replies, request >>

(***************************************************************************)
(* C29: per connection the router selects and invokes a top-level handler  *)
(* at most once; when that handler returns (Ok, ClientSideError or any     *)
(* other error) the session performs no further read or write and the      *)
(* connection is closed.                                                   *)
(***************************************************************************)
C29_OneHandlerPerConnection ==
    /\ [][NothingAfterReturn]_vars
    /\ [](Cardinality(TopLevelInvocations) <= 1 /\ HandlerReturnedCloses)

\* the routed chain returned the error of its first handler
C29_Witness ==
    /\ IsSome(outcome)
    /\ ~Unwrap(outcome).ok
    /\ Cardinality(TopLevelInvocations) = 1
    /\ log[1].h.kind = "and_then"
    /\ pc = "closed"

\* send_command waits for its reply although a whole line has arrived
WaitsForMoreThanALine ==
    /\ pc = "reply"
    /\ queued_messages = << >>
    /\ wire = ""
    /\ this_message # ""
    /\ SubSeq(this_message, Len(this_message), Len(this_message)) = "\n"

\* the handler on top holds a ParseError returned by send_command
HoldsParseError ==
    /\ frames # << >>
    /\ IsSome(Top.reply)
    /\ ~Unwrap(Top.reply).ok
    /\ Unwrap(Top.reply).err.kind = "ParseError"

(***************************************************************************)
(* C30: when the reply to a command is a malformed status line (code       *)
(* missing or unparsable, result missing or unparsable, unknown code),     *)
(* send_command returns a ParseError value to the handler; the framework   *)
(* does not close the session itself, the handler decides.                 *)
(***************************************************************************)
C30_MalformedStatusSurfaced ==
    /\ ~WaitsForMoreThanALine
    /\ HoldsParseError => pc = "run"

\* the scan of text fails after it peeled a message: n messages were peeled
\* before text, and a later line or block does not parse or is a
\* NetworkStart
RECURSIVE ScanFailsAfter(_, _)
ScanFailsAfter(text, n) ==
    LET r == strip_single_message(text)
    IN  IF ~r.res.ok THEN n >= 1
        ELSE IF ~IsSome(r.res.val) THEN FALSE
        ELSE IF Unwrap(r.res.val) = NetworkStart /\ n >= 1 THEN TRUE
        ELSE ScanFailsAfter(r.this_message, n + 1)

\* what the accumulator holds in the scan of the TCP read made now
Scanned == this_message \o Upto(wire, bytes_read)

\* a TCP read whose scan fails after a message: the read returns an error,
\* no message reaches the FIFO or the caller, and the bytes of the message
\* are gone from the accumulator
LosesPeeled ==
    (tcp_reads' # tcp_reads /\ bytes_read > 0 /\ ScanFailsAfter(Scanned, 0)) =>
        /\ Len(read_errors') = Len(read_errors) + 1
        /\ queued_messages' = << >>
        /\ delivered' = delivered
        /\ Len(this_message') <= Len(strip_single_message(Scanned).this_message)
        /\ pc' \in {"closed", "run"}

(***************************************************************************)
(* C37: if one TCP read holds a complete well-formed message followed by   *)
(* bytes that make the same scan fail (a parse error or an out-of-order    *)
(* NetworkStart), the well-formed message is lost: its bytes are removed   *)
(* from the accumulator, but it is neither returned nor put in the FIFO,   *)
(* and read_one_message never delivers it.                                 *)
(***************************************************************************)
C37_MessageLostOnFailedScan ==
    /\ [][LosesPeeled]_vars
    /\ [](Len(read_errors) <= 1 /\ (read_errors # << >> => ~Reading))

\* one read held the NetworkStart and a status line with an unknown code
C37_Witness ==
    /\ tcp_reads = 1
    /\ read_errors # << >>
    /\ read_errors[1].kind = "StatusDoesNotExist"
    /\ this_message = "404 result=1\n"
    /\ delivered = << >>
    /\ queued_messages = << >>
    /\ pc = "closed"

\* the invocations and the returns of user handlers, in their order
IsUserInvoke(e) == e.ev = "invoke" /\ e.h.kind = "user"
IsUserReturn(e) == e.ev = "return" /\ e.h.kind = "user"
UserInvokes == SelectSeq(log, IsUserInvoke)
UserReturns == SelectSeq(log, IsUserReturn)

\* the request was routed to the route "/a", wrapped by layer(L1).layer(L2)
WrappedRouteRuns == log # << >> /\ log[1].h = router.routes[1].handler

\* the handlers of the chain in the order they are to run
ChainOrder == << "L2", "L1", "a1" >>

\* the chain so far: the handlers ran in order, each after the one before
\* it returned Ok; an error ended the chain and is its result
ChainInOrder ==
    LET ran == Len(UserInvokes)
        back == Len(UserReturns)
    IN  /\ ran <= Len(ChainOrder)
        /\ \A i \in 1..ran : UserInvokes[i].h.id = ChainOrder[i]
        /\ back \in {ran - 1, ran}
        /\ \A i \in 1..(ran - 1) : Unwrap(UserReturns[i].res).ok
        /\ (back = ran /\ ~Unwrap(UserReturns[back].res).ok) =>
              outcome = UserReturns[back].res
        /\ IsSome(outcome) =>
              /\ back = ran
              /\ outcome = UserReturns[back].res
              /\ Unwrap(outcome).ok => ran = Len(ChainOrder)

(***************************************************************************)
(* C39: when two layers are applied in sequence,                           *)
(* router.layer(L1).layer(L2), a request to a wrapped route runs the       *)
(* handler of L2 first, then the handler of L1, then the route's own       *)
(* handler, each only if the one before returned Ok; an error from any of  *)
(* them stops the chain and is the result of the session's handler.        *)
(***************************************************************************)
C39_LayersInOrder == WrappedRouteRuns => ChainInOrder

\* L2 returned Ok, L1 failed, and the route's handler never ran
C39_Witness ==
    /\ WrappedRouteRuns
    /\ Len(UserInvokes) = 2
    /\ UserInvokes[2].h.id = "L1"
    /\ Unwrap(UserReturns[1].res).ok
    /\ IsSome(outcome)
    /\ outcome = Some(Err("ClientSideError", ""))
    /\ pc = "closed"

(***************************************************************************)
(* The session under the scheduling of the runtime: a task whose read can  *)
(* return, or whose FIFO holds a message, is eventually polled.            *)
(***************************************************************************)
\* a TCP read of read_one_message: the step of TcpRead, by its guard and
\* the count of reads
ReadStep ==
    /\ Reading
    /\ FifoEmpty(queued_messages)
    /\ ReadReady
    /\ tcp_reads' = tcp_reads + 1

\* a pop of read_one_message: the step of PopFront, by its guard and the
\* message returned
PopStep ==
    /\ Reading
    /\ queued_messages # << >>
    /\ delivered' = Append(delivered, Head(queued_messages))

SpecFair == Spec /\ WF_tcp_reads(ReadStep) /\ WF_delivered(PopStep)

\* the session waits for NetworkStart or for the VariableDump, the peer has
\* closed the stream and every byte it sent was read
ClosedWhileWaiting ==
    /\ pc \in {"read1", "read2"}
    /\ queued_messages = << >>
    /\ peer_closed
    /\ wire = ""

\* the session closed on NoBytes with no handler invoked and nothing written
ClosedOnNoBytes ==
    /\ pc = "closed"
    /\ NoHandlerRan
    /\ read_errors # << >>
    /\ read_errors[Len(read_errors)].kind = "NoBytes"

(***************************************************************************)
(* C31: if the peer closes the stream while the session waits for          *)
(* NetworkStart or for the VariableDump, the zero-byte read fails with     *)
(* NoBytes and the session eventually is closed, with no handler invoked   *)
(* and no byte written to the peer.                                        *)
(***************************************************************************)
C31_PeerClosedWhileWaiting == ClosedWhileWaiting ~> ClosedOnNoBytes

\* the peer closed after the NetworkStart, with a part of the dump read
C31_Witness ==
    /\ ClosedOnNoBytes
    /\ delivered = << NetworkStart >>
    /\ this_message # ""
    /\ peer_closed

\* the status lines the peer sends, each complete with its newline
StatusLines == { seg \in PeerSegments : AllDigits(Upto(seg, 3)) }

\* send_command has written its command and waits for the reply with an
\* empty accumulator and an empty FIFO; the peer has sent one complete
\* status line, or has closed the stream
ReplyOnItsWay ==
    /\ pc = "reply"
    /\ this_message = ""
    /\ queued_messages = << >>
    /\ \/ wire \in StatusLines
       \/ wire = "" /\ peer_closed

(***************************************************************************)
(* C40: after send_command has written its command, with an empty          *)
(* accumulator and FIFO, if the peer sends one complete newline-terminated *)
(* status line or closes the stream, send_command eventually returns (a    *)
(* typed response or an error).                                            *)
(***************************************************************************)
C40_SendCommandReturns == ReplyOnItsWay ~> (pc # "reply")

(***************************************************************************)
(* One send_command call on a connection whose accumulator and FIFO are    *)
(* empty: the command is written, the peer answers with some bytes and     *)
(* sends nothing more.                                                     *)
(***************************************************************************)
\* the commands sent
Commands ==
    { Answer, Verbose("hi"), SetVariable("X", "1"), GetFullVariable("X"),
      GetFullVariableWithChannel("X", "c"), RawCommand("NOOP") }

\* the values of the variable asked for
Values == { "the value", "x", "" }

\* what the peer answers with
ReplyWires ==
    { "200 result=1\n", "200 result=0\n", "200 result=-1\n", "200 result=2\n",
      "200 result=1 done\n", "200 result=+1\n", "200 result=01\n",
      "200 result=-0\n", "200 result=abc\n", "200 result=\n",
      "200 result=0 (x)\n", "200 result=-1 (x)\n",
      "510 result=-1\n", "511 result=-1\n", "520 result=-1\n",
      "404 result=1\n",
      NetworkStartLine, DumpText("agi://h/a"), DumpText("/tmp/agi.sh"),
      "" }
    \cup { "200 result=1 (" \o V \o ")\n" : V \in Values }

InitCommand ==
    /\ cCommand \in {Some(c) : c \in Commands}
    /\ cWire \in ReplyWires
    /\ cResponse = None
    /\ cTried = << >>
    /\ cReturned = None
    /\ IdleParser
    /\ IdleRouter
    /\ IdleSession
    /\ IdleStatus
    /\ IdleDump
    /\ IdleMatch
    /\ IdleServe

\* Connection::read_one_message on an empty FIFO, when the stream holds the
\* bytes stream and then its end
RECURSIVE read_one_message(_, _)

\* the loop of read_one_message after read_single_call returned new_messages
ReadLoop(new_messages, stream) ==
    IF ~new_messages.res.ok THEN new_messages.res
    ELSE IF new_messages.res.val # << >> THEN Ok(Head(new_messages.res.val))
    ELSE read_one_message(new_messages.this_message, stream)

read_one_message(buffer, stream) ==
    IF stream = "" THEN Err("NoBytes", "")
    ELSE ReadLoop(handle_single_call_buffer(buffer, Upto(stream, Min(Len(stream), ReadBufSize))),
                  From(stream, Min(Len(stream), ReadBufSize) + 1))

\* send_command after read_one_message returned response
Responded(name, response) ==
    /\ cResponse' = Some(response)
    /\ cTried' = IF response.ok THEN try_from_calls(name, response.val) ELSE << >>
    /\ cReturned' = Some(IF response.ok
                         THEN agi_response_as_specialized_status(name, response.val)
                         ELSE Err("ParseError", response.err.kind))

\* Connection::send_command
SendCommand ==
    /\ IsSome(cCommand)
    /\ cReturned = None
    /\ Responded(Unwrap(cCommand).name, read_one_message("", cWire))
    /\ UNCHANGED << cCommand, cWire, varsP, varsR, varsS, varsT, varsD, varsM, varsV >>

NextCommand == SendCommand

SpecCommand == InitCommand /\ [][NextCommand]_vars

\* send_command returned after the message it read was a Status
StatusRead ==
    /\ IsSome(cReturned)
    /\ Unwrap(cResponse).ok
    /\ Unwrap(cResponse).val.type = "Status"

\* the AGIResponse variant that passes a status code through
PassedThrough(code) ==
    CASE code = "510" -> ResponseOther("Invalid")
      [] code = "511" -> ResponseOther("DeadChannel")
      [] code = "520" -> ResponseOther("EndUsage")

(***************************************************************************)
(* C11: in send_command the parser of the command's typed response is      *)
(* invoked only when the reply is a 200 (Ok) status; the replies 510, 511  *)
(* and 520 are returned as the values Invalid, DeadChannel and EndUsage,   *)
(* which are no errors, and the parser is not invoked for them.            *)
(***************************************************************************)
C11_TypedParserOnlyOn200 ==
    /\ cTried # << >> =>
          /\ StatusRead
          /\ Unwrap(Unwrap(cResponse).val.status).kind = "Ok"
          /\ StartsWith(cWire, "200 result=")
    /\ \A code \in {"510", "511", "520"} :
          (IsSome(cReturned) /\ StartsWith(cWire, code \o " result=")) =>
              /\ cReturned = Some(Ok(PassedThrough(code)))
              /\ cTried = << >>

\* a 511 reply was returned as DeadChannel
C11_Witness ==
    /\ IsSome(cReturned)
    /\ StartsWith(cWire, "511 result=")
    /\ cReturned = Some(Ok(ResponseOther("DeadChannel")))
    /\ cTried = << >>

(***************************************************************************)
(* C12: if the message delivered as the reply to a command is not a Status *)
(* (it is a NetworkStart or a VariableDump), send_command fails with       *)
(* NotAStatus holding that message; it returns no typed response for it.   *)
(***************************************************************************)
C12_NotAStatus ==
    (IsSome(cReturned) /\ Unwrap(cResponse).ok
                       /\ Unwrap(cResponse).val.type # "Status") =>
        /\ cReturned = Some(Err("NotAStatus", Unwrap(cResponse).val))
        /\ cTried = << >>

\* a variable dump was delivered as the reply
C12_Witness ==
    /\ IsSome(cReturned)
    /\ Unwrap(cResponse).ok
    /\ Unwrap(cResponse).val.type = "VariableDump"
    /\ Unwrap(cReturned).err.kind = "NotAStatus"

(***************************************************************************)
(* C15: when the peer replies `200 result=1 (V)` and a newline to a GET    *)
(* FULL VARIABLE command, send_command returns Ok with value = V, the      *)
(* operational data without its surrounding parentheses (V may be `the     *)
(* value`).                                                                *)
(***************************************************************************)
C15_GetFullVariableValue ==
    \A V \in Values :
        (IsSome(cReturned) /\ Unwrap(cCommand).name = "GET FULL VARIABLE"
                           /\ cWire = "200 result=1 (" \o V \o ")\n") =>
            cReturned = Some(Ok(ResponseOk(Typed("Value", "", Some(V)))))

\* the result texts that denote the numbers 0, 1 and -1
ResultZero == { "0", "-0" }
ResultOne == { "1", "+1", "01" }
ResultMinusOne == { "-1" }

\* what send_command is to return for the command named name when the
\* reply is a 200 status with this result and this operational data
TypedFor(name, result, op_data) ==
    LET typed(variant, value) == Ok(ResponseOk(Typed(variant, "", value)))
        unspecializable == Err("AGIStatusUnspecializable", name)
    IN  CASE name = "ANSWER" ->
                (IF result \in ResultZero THEN typed("Success", None)
                 ELSE IF result \in ResultMinusOne THEN typed("Failure", None)
                 ELSE unspecializable)
          [] name \in {"VERBOSE", "SET VARIABLE"} ->
                (IF result \in ResultOne THEN typed("Unit", None) ELSE unspecializable)
          [] name = "GET FULL VARIABLE" ->
                (IF result \in ResultZero THEN typed("Value", None)
                 ELSE IF result \in ResultOne /\ IsSome(op_data)
                 THEN typed("Value", Some(TrimParens(Unwrap(op_data))))
                 ELSE unspecializable)
          [] name = "RAW" -> Ok(ResponseOk(Typed("Raw", result, op_data)))

\* the 200 status send_command read
OkStatusRead == StatusRead /\ Unwrap(Unwrap(cResponse).val.status).kind = "Ok"

(***************************************************************************)
(* C32: for a 200 reply the typed result of send_command follows the       *)
(* command issued.  ANSWER gives Success for result 0 and Failure for      *)
(* result -1; VERBOSE and SET VARIABLE give unit only for result 1; GET    *)
(* FULL VARIABLE gives no value for result 0 and the operational data for  *)
(* result 1, which it needs; RAW always succeeds and carries result and    *)
(* operational data as they are; any other result of a command that is not *)
(* RAW fails with AGIStatusUnspecializable naming the command.             *)
(***************************************************************************)
C32_TypedByCommand ==
    OkStatusRead =>
        cReturned = Some(TypedFor(Unwrap(cCommand).name,
                                  Unwrap(Unwrap(cResponse).val.status).result,
                                  Unwrap(Unwrap(cResponse).val.status).op_data))

\* GET FULL VARIABLE was answered with result 1 and no operational data
C32_Witness ==
    /\ OkStatusRead
    /\ Unwrap(cCommand).name = "GET FULL VARIABLE"
    /\ cWire = "200 result=1\n"
    /\ cReturned = Some(Err("AGIStatusUnspecializable", "GET FULL VARIABLE"))

(***************************************************************************)
(* AGIStatusGeneric::from_str applied to a status line.                    *)
(***************************************************************************)
\* the three-digit status codes
StatusCodes == 100..999

\* what follows the code on the line
StatusTails == { " result=1", " result=0 done\n" }

InitStatus ==
    /\ tCode \in StatusCodes
    /\ tLine \in {ToString(tCode) \o tail : tail \in StatusTails}
    /\ tStatus = None
    /\ IdleParser
    /\ IdleRouter
    /\ IdleSession
    /\ IdleCommand
    /\ IdleDump
    /\ IdleMatch
    /\ IdleServe

\* s.parse::<AGIStatusGeneric>()
ParseStatus ==
    /\ tStatus = None
    /\ tStatus' = Some(AGIStatusGeneric_from_str(tLine))
    /\ UNCHANGED << tCode, tLine, varsP, varsR, varsS, varsC, varsD, varsM, varsV >>

NextStatus == ParseStatus

SpecStatus == InitStatus /\ [][NextStatus]_vars

\* the status a line with an accepted code is parsed to
StatusParsedAs(status) ==
    CASE tCode = 200 -> status.ok /\ status.val.kind = "Ok"
      [] tCode = 510 -> status = Ok(StatusInvalid)
      [] tCode = 511 -> status = Ok(StatusDeadChannel)
      [] tCode = 520 -> status = Ok(StatusEndUsage)
      [] OTHER -> status = Err("StatusDoesNotExist", ToString(tCode))

(***************************************************************************)
(* C16: status code closure.  Status parsing accepts a status line only if *)
(* its code is 200, 510, 511 or 520, giving Ok, Invalid, DeadChannel and   *)
(* EndUsage; every other three-digit code yields the parse error           *)
(* StatusDoesNotExist and never a status value.                            *)
(***************************************************************************)
C16_StatusCodeClosure == IsSome(tStatus) => StatusParsedAs(Unwrap(tStatus))

\* the line of code 404 was parsed and refused
C16_Witness ==
    /\ tCode = 404
    /\ IsSome(tStatus)
    /\ Unwrap(tStatus) = Err("StatusDoesNotExist", "404")

(***************************************************************************)
(* A variable dump parsed, rendered and parsed again.                      *)
(***************************************************************************)
DumpRequests == {"agi://h/a", "http://h", "/tmp/agi.sh", "a\"b"}
DumpPriorities == {"2", "02", "70000"}
DumpEnhanced == {"0.0", "1.0"}
DumpArgLines == {"", "agi_arg_0: a\n", "agi_arg_1: a\n", "agi_arg_0: a\nagi_arg_1: b\n"}

DumpInputs ==
    {DumpTextOf(r, p, e, a) :
        r \in DumpRequests, p \in DumpPriorities, e \in DumpEnhanced, a \in DumpArgLines}

InitDump ==
    /\ dInput \in DumpInputs
    /\ dParsed = None
    /\ dRendered = None
    /\ dReparsed = None
    /\ tCode = 0
    /\ tLine = ""
    /\ tStatus = None
    /\ IdleParser
    /\ IdleRouter
    /\ IdleSession
    /\ IdleCommand
    /\ IdleMatch
    /\ IdleServe

\* input.parse::<AGIVariableDump>()
ParseDump ==
    /\ dParsed = None
    /\ dParsed' = Some(AGIVariableDump_from_str(dInput))
    /\ UNCHANGED << dInput, dRendered, dReparsed, varsP, varsR, varsS, varsC, varsT, varsM, varsV >>

\* dump.to_string() of the dump parsed
RenderDump ==
    /\ IsSome(dParsed)
    /\ Unwrap(dParsed).ok
    /\ dRendered = None
    /\ dRendered' = Some(AGIVariableDump_to_string(Unwrap(dParsed).val))
    /\ UNCHANGED << dInput, dParsed, dReparsed, varsP, varsR, varsS, varsC, varsT, varsM, varsV >>

\* rendered.parse::<AGIVariableDump>() of the text rendered
ReparseDump ==
    /\ IsSome(dRendered)
    /\ ~Unwrap(dRendered).panic
    /\ dReparsed = None
    /\ dReparsed' = Some(AGIVariableDump_from_str(Unwrap(dRendered).text))
    /\ UNCHANGED << dInput, dParsed, dRendered, varsP, varsR, varsS, varsC, varsT, varsM, varsV >>

NextDump == ParseDump \/ RenderDump \/ ReparseDump

SpecDump == InitDump /\ [][NextDump]_vars

(***************************************************************************)
(* C18: round trip of the variable dump.  For every variable dump the      *)
(* parser produces, rendering it and parsing the rendered text again       *)
(* succeeds and yields a dump equal to it.                                 *)
(***************************************************************************)
C18_DumpRoundTrip ==
    /\ IsSome(dRendered) => ~Unwrap(dRendered).panic
    /\ IsSome(dReparsed) =>
          /\ Unwrap(dReparsed).ok
          /\ Unwrap(dReparsed).val = Unwrap(dParsed).val

(***************************************************************************)
(* A router of two routes built with Router::route, and one request        *)
(* dispatched on it.                                                       *)
(***************************************************************************)
MatchLocations == { "/a/:u/*", "/a/b", "/a/*", "/*", "/:u/:u", "/a/*/:u" }

MatchUrls ==
    { "agi://h/a/b/c", "agi://h/a/b/c/d", "agi://h/a/b/", "agi://h/a/b",
      "agi://h/a", "agi://h" }

InitMatch ==
    /\ mLoc \in { << first, second >> : first \in MatchLocations, second \in MatchLocations }
    /\ mRouter = Router_new
    /\ mResult = None
    /\ IdleParser
    /\ IdleRouter
    /\ IdleSession
    /\ IdleCommand
    /\ IdleStatus
    /\ IdleDump
    /\ IdleServe

\* router.route(location, handler) with the next location
AddRoute ==
    /\ Len(mRouter.routes) < Len(mLoc)
    /\ LET n == Len(mRouter.routes) + 1
       IN  /\ RouteAsserts(mLoc[n])
           /\ mRouter' = Router_route(mRouter, mLoc[n], UserHandler("m" \o ToString(n)))
    /\ UNCHANGED << mLoc, mResult, varsP, varsR, varsS, varsC, varsT, varsD, varsV >>

\* route_request for a variable dump whose agi_request is url
MatchUrl(url) ==
    /\ Len(mRouter.routes) = Len(mLoc)
    /\ mResult = None
    /\ LET agi_request == AGIRequestType_from_str(url)
       IN  /\ agi_request.kind = "FastAGI"
           /\ mResult' = Some([url |-> Unwrap(agi_request.url),
                               res |-> route_request(mRouter, agi_request)])
    /\ UNCHANGED << mLoc, mRouter, varsP, varsR, varsS, varsC, varsT, varsD, varsV >>

NextMatch == AddRoute \/ \E url \in MatchUrls : MatchUrl(url)

SpecMatch == InitMatch /\ [][NextMatch]_vars

\* the path segments of a url; none for a url without a path
SegmentsOf(url) ==
    IF IsSome(path_segments(url)) THEN Unwrap(path_segments(url)) ELSE << >>

\* a pattern whose last segment, and no other, is a wildcard
EndsInWildcard(path) ==
    /\ path # << >>
    /\ StartsWith(path[Len(path)], "*")
    /\ \A i \in 1..(Len(path) - 1) :
          StartsWith(path[i], ":") \/ ~StartsWith(path[i], "*")

\* the segments before the wildcard fit the first segments of the url
PrefixFits(path, segs) ==
    /\ Len(segs) >= Len(path) - 1
    /\ \A i \in 1..(Len(path) - 1) : StartsWith(path[i], ":") \/ path[i] = segs[i]

\* what matching a pattern that ends in a wildcard has to yield
WildcardMatches(path, url, m) ==
    LET segs == SegmentsOf(url)
    IN  IF PrefixFits(path, segs) /\ Len(segs) >= Len(path)
        THEN /\ m.kind = "Some"
             /\ m.wildcards = Some(JoinFrom(segs, Len(path)))
        ELSE m.kind = "None"

(***************************************************************************)
(* C21: wildcard.  A pattern ending in a wildcard matches a URL that has   *)
(* one or more segments after the pattern's prefix, binding `wildcards` to *)
(* those segments joined by `/`; it matches with the empty string when the *)
(* URL has only a trailing slash after the prefix; it does not match a URL *)
(* that ends at the prefix without a trailing slash, and that URL falls    *)
(* through to the later routes.                                            *)
(***************************************************************************)
C21_Wildcard ==
    IsSome(mResult) =>
        LET d == Unwrap(mResult)
            first == mRouter.routes[1]
        IN  /\ \A i \in 1..Len(mRouter.routes) :
                  EndsInWildcard(mRouter.routes[i].path) =>
                      WildcardMatches(mRouter.routes[i].path, d.url,
                                      path_matches(mRouter.routes[i].path, d.url))
            /\ EndsInWildcard(first.path) =>
                  IF PrefixFits(first.path, SegmentsOf(d.url))
                     /\ Len(SegmentsOf(d.url)) >= Len(first.path)
                  THEN /\ ~d.res.panic
                       /\ d.res.idx = 1
                       /\ d.res.handler = first.handler
                       /\ d.res.wildcards =
                              Some(JoinFrom(SegmentsOf(d.url), Len(first.path)))
                  ELSE d.res = RouteLoop(mRouter, d.url, 2)

\* routes /a/:u/* and /a/b: /a/b went to the second route
C21_Witness ==
    /\ mLoc = << "/a/:u/*", "/a/b" >>
    /\ IsSome(mResult)
    /\ Unwrap(mResult).url.text = "agi://h/a/b"
    /\ Unwrap(mResult).res = Routed(2, UserHandler("m2"), EmptyMap, None)

(***************************************************************************)
(* C22: captures.  Whenever a route matches a request, every capture       *)
(* segment `:name` of the route's pattern has an entry in the captures     *)
(* map, bound to the URL path segment at the same position, for every      *)
(* pattern that Router::route accepts.                                     *)
(***************************************************************************)
C22_CapturesBound ==
    (IsSome(mResult) /\ ~Unwrap(mResult).res.panic /\ Unwrap(mResult).res.idx > 0) =>
        LET d == Unwrap(mResult)
            path == mRouter.routes[d.res.idx].path
            segs == SegmentsOf(d.url)
        IN  \A i \in 1..Len(path) :
                StartsWith(path[i], ":") =>
                    /\ i <= Len(segs)
                    /\ << From(path[i], 2), segs[i] >> \in d.res.captures

\* a pattern without a wildcard segment
NoWildcard(path) == \A i \in 1..Len(path) : ~StartsWith(path[i], "*")

\* the url has more path segments than the pattern
LongerThan(url, path) == Len(SegmentsOf(url)) > Len(path)

(***************************************************************************)
(* C34: for a pattern without a wildcard, path_matches returns no-match    *)
(* and does not fail when the request URL has more path segments than the  *)
(* pattern, even if every segment of the pattern matches the URL's leading *)
(* segments; dispatch then goes on to the next route or the fallback.      *)
(***************************************************************************)
C34_LongerUrlNoMatch ==
    IsSome(mResult) =>
        LET d == Unwrap(mResult)
        IN  /\ \A i \in 1..Len(mRouter.routes) :
                  (NoWildcard(mRouter.routes[i].path)
                   /\ LongerThan(d.url, mRouter.routes[i].path)) =>
                      path_matches(mRouter.routes[i].path, d.url) = NoMatch
            /\ (NoWildcard(mRouter.routes[1].path)
                /\ LongerThan(d.url, mRouter.routes[1].path)) =>
                   d.res = RouteLoop(mRouter, d.url, 2)

(***************************************************************************)
(* serve.rs: the accept loop and the tasks it spawns.  Every task runs     *)
(* Router::handle on its own stream; the peer of a stream sends its        *)
(* opening bytes in one segment.  The handlers of the router served send   *)
(* no command: a handler invoked returns a result.                         *)
(***************************************************************************)
\* the router given to serve:
\* Router::new().route("/a", a1).fallback(f)
ServeRouter ==
    Router_fallback(Router_route(Router_new, "/a", UserHandler("a1")), UserHandler("f"))

\* what the peer of a stream sends
ServeSegments ==
    { NetworkStartLine \o DumpText("agi://h/a"),
      NetworkStartLine \o DumpText("agi://h/b"),
      "200 result=1\n" }

\* what a handler invoked may return
ServeResults == { Ok("unit"), Err("ClientSideError", "") }

\* router_arc.clone(), had every task been given a router of its own
our_router_fresh(arc) == Router_new

\* `let our_router = router_arc.clone()`: another handle on the same router
our_router(arc) == arc

\* Connection::new
Connection_new == [this_message |-> "", queued_messages |-> << >>]

\* the accept loop, had it awaited Router::handle instead of spawning it
AcceptsWhenDone(spawned) == \A i \in 1..Len(spawned) : spawned[i].pc = "closed"

\* tokio::spawn returns at once: the loop goes back to accept
AcceptsNext(spawned) == TRUE

\* the tasks when serve returns, had its return aborted them
Aborted(spawned) ==
    [i \in 1..Len(spawned) |-> [spawned[i] EXCEPT !.pc = "closed"]]

\* the tasks when serve returns: they were spawned, not joined
Detached(spawned) == spawned

\* tokio::spawn(async move { our_router.handle(stream).await }): the task
\* at the start of Router::handle; seen tells whether the handler of an
\* earlier task was running at that time
Spawned(router_handle, seen) ==
    [router |-> router_handle, pc |-> "read1",
     this_message |-> Connection_new.this_message,
     queued_messages |-> Connection_new.queued_messages,
     wire |-> "", sent |-> FALSE, request |-> None, handler |-> None,
     outcome |-> None, seen |-> seen]

InitServe ==
    /\ router_arc = ServeRouter
    /\ tasks = << >>
    /\ served = None
    /\ IdleParser
    /\ IdleRouter
    /\ IdleSession
    /\ IdleCommand
    /\ IdleStatus
    /\ IdleDump
    /\ IdleMatch

Serving == served = None

\* listener.accept() returns a stream and the task is spawned
Accept ==
    /\ Serving
    /\ Len(tasks) < MaxSessions
    /\ AcceptsNext(tasks)
    /\ tasks' = Append(tasks, Spawned(our_router(router_arc),
                                      \E i \in 1..Len(tasks) : tasks[i].pc = "run"))
    /\ UNCHANGED << router_arc, served, varsP, varsR, varsS, varsC, varsT, varsD, varsM >>

\* listener.accept() fails: `.map_err(|_| AGIError::CannotSpawnListener)?`
AcceptFail ==
    /\ Serving
    /\ served' = Some([res |-> Err("CannotSpawnListener", ""),
                       running |-> {i \in 1..Len(tasks) : tasks[i].pc = "run"}])
    /\ tasks' = Detached(tasks)
    /\ UNCHANGED << router_arc, varsP, varsR, varsS, varsC, varsT, varsD, varsM >>

\* the peer of the stream of task i sends seg
StreamSend(i, seg) ==
    /\ tasks[i].pc \in {"read1", "read2"}
    /\ ~tasks[i].sent
    /\ tasks' = [tasks EXCEPT ![i].wire = seg, ![i].sent = TRUE]
    /\ UNCHANGED << router_arc, served, varsP, varsR, varsS, varsC, varsT, varsD, varsM >>

\* Router::handle of a task goes on with what read_one_message returned
TaskContinue(task, res) ==
    IF task.pc = "read1"
    THEN [task EXCEPT !.pc = IF res.ok /\ FirstPacketOk(res.val) THEN "read2" ELSE "closed"]
    ELSE IF res.ok /\ res.val.type = "VariableDump"
                  /\ RequestIsFastAGI(Unwrap(res.val.dump))
    THEN LET request_data == Unwrap(res.val.dump)
             routed == route_request(task.router, request_data.vals["request"])
         IN  IF routed.panic THEN [task EXCEPT !.pc = "panicked"]
             ELSE [task EXCEPT !.pc = "run",
                               !.request = Some(AGIRequest(request_data, routed.captures,
                                                           routed.wildcards)),
                               !.handler = Some(routed.handler)]
    ELSE [task EXCEPT !.pc = "closed"]

\* read_one_message of a task whose FIFO is empty, after read_single_call
\* returned new_messages and count bytes were read: the messages are queued
\* and the first is popped; with no message yet the loop reads again
TaskAfterRead(task, new_messages, count) ==
    LET drained == [task EXCEPT !.wire = From(task.wire, count + 1),
                                !.this_message = new_messages.this_message]
    IN  IF ~new_messages.res.ok THEN TaskContinue(drained, new_messages.res)
        ELSE IF new_messages.res.val = << >> THEN drained
        ELSE TaskContinue([drained EXCEPT !.queued_messages = Tail(new_messages.res.val)],
                          Ok(Head(new_messages.res.val)))

\* read_one_message of a task
TaskReadOne(task) ==
    IF ~FifoEmpty(task.queued_messages)
    THEN TaskContinue([task EXCEPT !.queued_messages = Tail(@)],
                      Ok(Head(task.queued_messages)))
    ELSE TaskAfterRead(task,
                       handle_single_call_buffer(task.this_message,
                                                 Upto(task.wire, Min(Len(task.wire), ReadBufSize))),
                       Min(Len(task.wire), ReadBufSize))

\* task i reads its next message and Router::handle goes on with it
TaskRead(i) ==
    /\ tasks[i].pc \in {"read1", "read2"}
    /\ tasks[i].queued_messages # << >> \/ tasks[i].wire # ""
    /\ tasks' = [tasks EXCEPT ![i] = TaskReadOne(tasks[i])]
    /\ UNCHANGED << router_arc, served, varsP, varsR, varsS, varsC, varsT, varsD, varsM >>

\* the handler invoked in task i returns res; Router::handle returns
TaskReturn(i, res) ==
    /\ tasks[i].pc = "run"
    /\ tasks' = [tasks EXCEPT ![i].pc = "closed", ![i].outcome = Some(res)]
    /\ UNCHANGED << router_arc, served, varsP, varsR, varsS, varsC, varsT, varsD, varsM >>

NextServe ==
    \/ Accept
    \/ AcceptFail
    \/ \E i \in 1..Len(tasks), seg \in ServeSegments : StreamSend(i, seg)
    \/ \E i \in 1..Len(tasks) : TaskRead(i)
    \/ \E i \in 1..Len(tasks), res \in ServeResults : TaskReturn(i, res)

SpecServe == InitServe /\ [][NextServe]_vars

\* the tasks a step changed
Touched == {i \in 1..Len(tasks) : tasks'[i] # tasks[i]}

\* a step changes at most one task, removes none, and a task accepted
\* starts with a Connection of its own at the start of Router::handle
OneTaskPerStep ==
    /\ Len(tasks') >= Len(tasks)
    /\ Cardinality(Touched) <= 1
    /\ Len(tasks') > Len(tasks) =>
          /\ Touched = {}
          /\ Len(tasks') = Len(tasks) + 1
          /\ tasks'[Len(tasks')].pc = "read1"
          /\ tasks'[Len(tasks')].this_message = ""
          /\ tasks'[Len(tasks')].queued_messages = << >>
          /\ tasks'[Len(tasks')].wire = ""

\* while serve loops, the next connection can be accepted whatever the
\* earlier tasks are doing
AcceptOpen == (Serving /\ Len(tasks) < MaxSessions) => ENABLED Accept

(***************************************************************************)
(* C24: the accept loop keeps accepting new connections while earlier      *)
(* sessions are still running, blocked on the peer, or have failed; each   *)
(* accepted stream gets its own task and its own Connection, and no step   *)
(* of one session changes the accumulator, FIFO or state of another.       *)
(***************************************************************************)
C24_IndependentSessions == [][OneTaskPerStep]_vars /\ []AcceptOpen

\* the second connection was accepted while the handler of the first was
\* running, and read a message of its own
C24_Witness ==
    /\ Len(tasks) = 2
    /\ tasks[2].seen
    /\ tasks[2].pc = "read2"
    /\ tasks[1].pc = "run"

\* the step in which serve returns leaves the tasks as they are
ServeReturns == (Serving /\ ~Serving') => tasks' = tasks

\* serve returned CannotSpawnListener, and every handler that runs can
\* still return
ReturnedOnAcceptFailure ==
    ~Serving =>
        /\ Unwrap(served).res = Err("CannotSpawnListener", "")
        /\ \A i \in 1..Len(tasks) :
              tasks[i].pc = "run" => ENABLED TaskReturn(i, Ok("unit"))

(***************************************************************************)
(* C25: serve returns only when accept fails, and then with                *)
(* CannotSpawnListener; the sessions already spawned are not cancelled by  *)
(* that and keep running until their handlers terminate.                   *)
(***************************************************************************)
C25_ServeReturn == [][ServeReturns]_vars /\ []ReturnedOnAcceptFailure

\* a handler that was running when serve returned has returned Ok since
C25_Witness ==
    /\ ~Serving
    /\ \E i \in Unwrap(served).running :
          /\ tasks[i].pc = "closed"
          /\ tasks[i].outcome = Some(Ok("unit"))

\* the handler the router given to serve chooses for the request of a task
ChosenFor(task) ==
    route_request(ServeRouter, Unwrap(task.request).variables.vals["request"]).handler

(***************************************************************************)
(* C26: no session step (reading, routing, running a handler, closing)     *)
(* changes the router's route list, route order or fallback: every         *)
(* session, at any time, dispatches against the router passed to serve.    *)
(***************************************************************************)
C26_RouterImmutable ==
    /\ router_arc = ServeRouter
    /\ \A i \in 1..Len(tasks) :
          /\ tasks[i].router = router_arc
          /\ IsSome(tasks[i].handler) => tasks[i].handler = Some(ChosenFor(tasks[i]))

\* two sessions were dispatched, one to the route and one to the fallback
C26_Witness ==
    /\ Len(tasks) = 2
    /\ tasks[1].handler = Some(UserHandler("a1"))
    /\ tasks[2].handler = Some(UserHandler("f"))
    /\ tasks[1].pc = "closed"

====
